---------------------------- MODULE Spec2Model ----------------------------
(***************************************************************************)
(* A model of the load-orchestration pipeline of doris-stream-load-client: *)
(* LoadSetting (pkg/config), HttpPutBuilder and StreamLoader (pkg/load)    *)
(* and DorisLoadClient (pkg/client).                                       *)
(*                                                                         *)
(* Go strings are TLA+ strings (TLC evaluates Len, SubSeq and \o on them). *)
(* A Go int64 is the sequence of its 8 bytes, in two's complement, so that *)
(* shifts and products wrap as they do in the program.                     *)
(***************************************************************************)
EXTENDS Integers, Sequences, FiniteSets, TLC

(***************************************************************************)
(* Strings                                                                 *)
(***************************************************************************)
UpperLetters == "ABCDEFGHIJKLMNOPQRSTUVWXYZ"
LowerLetters == "abcdefghijklmnopqrstuvwxyz"

\* The 1-based position of the one-character string c in s, 0 when absent.
IndexIn(c, s) ==
    IF \E i \in 1..Len(s) : SubSeq(s, i, i) = c
    THEN CHOOSE i \in 1..Len(s) : SubSeq(s, i, i) = c
    ELSE 0

\* The letters as one-character strings, each with its other case.
lowerOf ==
    [c \in {SubSeq(UpperLetters, i, i) : i \in 1..Len(UpperLetters)} |->
        SubSeq(LowerLetters, IndexIn(c, UpperLetters), IndexIn(c, UpperLetters))]
upperOf ==
    [c \in {SubSeq(LowerLetters, i, i) : i \in 1..Len(LowerLetters)} |->
        SubSeq(UpperLetters, IndexIn(c, LowerLetters), IndexIn(c, LowerLetters))]

toLowerChar(c) == IF c \in DOMAIN lowerOf THEN lowerOf[c] ELSE c

toUpperChar(c) == IF c \in DOMAIN upperOf THEN upperOf[c] ELSE c

\* strings.ToLower, on the ASCII letters (by halves, to keep the evaluation
\* shallow).
RECURSIVE ToLower(_)
ToLower(s) ==
    IF Len(s) = 0 THEN ""
    ELSE IF Len(s) = 1 THEN toLowerChar(s)
    ELSE LET h == Len(s) \div 2
         IN  ToLower(SubSeq(s, 1, h)) \o ToLower(SubSeq(s, h + 1, Len(s)))

\* strings.Contains.
Contains(s, p) ==
    \E i \in 1..(Len(s) - Len(p) + 1) : SubSeq(s, i, i + Len(p) - 1) = p

\* strings.EqualFold, on the ASCII letters.
EqualFold(s, t) == ToLower(s) = ToLower(t)

(***************************************************************************)
(* 64-bit integers: an int64 is the sequence of its 8 bytes, least         *)
(* significant first, in two's complement.                                 *)
(***************************************************************************)
\* The number of bytes of an int64 (and of an int on the 64-bit builds).
IntBytes == 8

Byte == 256

RECURSIVE Pow(_, _)
Pow(b, k) == IF k = 0 THEN 1 ELSE b * Pow(b, k - 1)

RECURSIVE bytesOf(_, _)
bytesOf(n, k) == IF k = 0 THEN <<>> ELSE <<n % Byte>> \o bytesOf(n \div Byte, k - 1)

\* The int64 of a natural number below 2^31.
FromNat(n) == bytesOf(n, IntBytes)

Zero64 == FromNat(0)

\* Whether a non-negative int64 is below 2^24, and then its value.
IsSmall(a) == \A i \in 4..IntBytes : a[i] = 0
ToNat(a) == a[1] + Byte * a[2] + Byte * Byte * a[3]

IsNegative(a) == a[IntBytes] >= 128

\* int64(1 << k) for a shift count k >= 0: 0 once the bit leaves the width.
OneShl(k) ==
    [i \in 1..IntBytes |-> IF k \div 8 = i - 1 THEN Pow(2, k % 8) ELSE 0]

\* The sum of a[i] * b[k + 1 - i] for i in lo..k: the column k of a product.
RECURSIVE column(_, _, _, _)
column(a, b, k, lo) ==
    IF lo > k THEN 0 ELSE a[lo] * b[k + 1 - lo] + column(a, b, k, lo + 1)

RECURSIVE mulFrom(_, _, _, _)
mulFrom(a, b, k, carry) ==
    IF k > IntBytes THEN <<>>
    ELSE LET t == carry + column(a, b, k, 1)
         IN  <<t % Byte>> \o mulFrom(a, b, k + 1, t \div Byte)

\* a * b on int64: the low 64 bits of the product, as the processor keeps them.
Mul64(a, b) == mulFrom(a, b, 1, 0)

\* The highest byte position where a and b differ, 0 when they are equal.
RECURSIVE topDiff(_, _, _)
topDiff(a, b, i) ==
    IF i = 0 THEN 0 ELSE IF a[i] # b[i] THEN i ELSE topDiff(a, b, i - 1)

\* a > b on int64 (signed).
Gt64(a, b) ==
    IF IsNegative(a) # IsNegative(b) THEN IsNegative(b)
    ELSE LET i == topDiff(a, b, IntBytes) IN i # 0 /\ a[i] > b[i]

\* time.Millisecond, in nanoseconds.
NanosPerMilli == 1000000

\* time.Duration(ms) * time.Millisecond for an int64 number of milliseconds.
Millis64(a) == Mul64(a, FromNat(NanosPerMilli))

\* The time.Duration of ms milliseconds, ms a natural number below 2^31.
Millis(ms) == Millis64(FromNat(ms))

(***************************************************************************)
(* Errors and responses                                                    *)
(*                                                                         *)
(* A Go error is a record: its text (Error()), whether its dynamic type    *)
(* implements net.Error and what Timeout() and Temporary() then answer,    *)
(* and, for the properties only, the cause that produced it.  A nil error  *)
(* or a nil *LoadResponse has isNil set.                                   *)
(***************************************************************************)
NilErr ==
    [isNil |-> TRUE, msg |-> "", netError |-> FALSE, timeout |-> FALSE,
     temporary |-> FALSE, cause |-> "none"]

\* errors.New / fmt.Errorf without %w: a plain error.
NewError(msg, cause) ==
    [isNil |-> FALSE, msg |-> msg, netError |-> FALSE, timeout |-> FALSE,
     temporary |-> FALSE, cause |-> cause]

\* fmt.Errorf(prefix + "%w", err): a *fmt.wrapError, which has the wrapped
\* error's text behind the prefix and does not implement net.Error itself.
Wrap(prefix, err) == NewError(prefix \o err.msg, err.cause)

\* exception.NewStreamLoadError(message): an error whose text is the message.
NewStreamLoadError(message) == NewError(message, "http_status")

SUCCESS == "SUCCESS"
FAILURE == "FAILURE"

\* A RespContent with the fields the pipeline reads.
RespContent(status, message, errorURL, rows) ==
    [Status |-> status, Message |-> message, ErrorURL |-> errorURL,
     NumberLoadedRows |-> rows]

NilResponse ==
    [isNil |-> TRUE, Status |-> "", Resp |-> RespContent("", "", "", 0),
     ErrorMessage |-> ""]

LoadResponse(status, resp, errorMessage) ==
    [isNil |-> FALSE, Status |-> status, Resp |-> resp,
     ErrorMessage |-> errorMessage]

(***************************************************************************)
(* pkg/config: LoadSetting and Retry                                       *)
(*                                                                         *)
(* A map[string]string is a function from its keys; a *Retry is a record,  *)
(* with isNil set for the nil pointer.                                     *)
(***************************************************************************)
SYNC  == "SYNC"
ASYNC == "ASYNC"
OFF   == "OFF"

EmptyMap == <<>>

\* m[key] = value
MapPut(m, key, value) ==
    [k \in DOMAIN m \cup {key} |-> IF k = key THEN value ELSE m[k]]

\* delete(m, key)
MapDelete(m, key) == [k \in DOMAIN m \ {key} |-> m[k]]

\* for k, v := range n { m[k] = v }
MapPutAll(m, n) ==
    [k \in DOMAIN m \cup DOMAIN n |-> IF k \in DOMAIN n THEN n[k] ELSE m[k]]

NilRetry == [isNil |-> TRUE, maxRetryTimes |-> 0, retryIntervalMs |-> Zero64]

NewRetry(maxRetryTimes, retryIntervalMs) ==
    [isNil |-> FALSE, maxRetryTimes |-> maxRetryTimes,
     retryIntervalMs |-> retryIntervalMs]

NewDefaultRetry == NewRetry(5, FromNat(1000))

\* The body of LoadSetting.BatchMode: the mode, and the group_commit option
\* set or deleted with it.
withBatchMode(s, mode) ==
    [s EXCEPT !.batchMode = mode,
              !.settings =
                  CASE mode = SYNC  -> MapPut(s.settings, "group_commit", "sync_mode")
                    [] mode = ASYNC -> MapPut(s.settings, "group_commit", "async_mode")
                    [] OTHER        -> MapDelete(s.settings, "group_commit")]

\* NewLoadSetting(): the zero values, the default retry, then BatchMode(ASYNC).
NewLoadSetting ==
    withBatchMode([settings |-> EmptyMap, user |-> "", password |-> "",
                   database |-> "", table |-> "", labelPrefix |-> "",
                   retry |-> NewDefaultRetry, batchMode |-> SYNC,
                   parsedNodes |-> <<>>],
                  ASYNC)

\* strings.Split(s, ","): the items between the commas, in order.
RECURSIVE SplitComma(_)
SplitComma(s) ==
    LET i == IndexIn(",", s)
    IN  IF i = 0 THEN <<s>>
        ELSE <<SubSeq(s, 1, i - 1)>> \o SplitComma(SubSeq(s, i + 1, Len(s)))

\* url.Parse(node).Host for a node written scheme://host[:port][/path]; a node
\* without "://" has no authority part and its Host is empty.
UrlHost(node) ==
    IF \E i \in 1..(Len(node) - 2) : SubSeq(node, i, i + 2) = "://"
    THEN LET i    == CHOOSE j \in 1..(Len(node) - 2) :
                        /\ SubSeq(node, j, j + 2) = "://"
                        /\ \A k \in 1..(j - 1) : SubSeq(node, k, k + 2) # "://"
             rest == SubSeq(node, i + 3, Len(node))
             s    == IndexIn("/", rest)
         IN  IF s = 0 THEN rest ELSE SubSeq(rest, 1, s - 1)
    ELSE ""

\* The body of LoadSetting.AddFeNodes: the hosts of the comma-separated nodes,
\* nil for the empty string.
parseFeNodes(feNodes) ==
    IF feNodes # ""
    THEN LET nodes == SplitComma(feNodes)
         IN  [i \in 1..Len(nodes) |-> UrlHost(nodes[i])]
    ELSE <<>>

JsonObjectLine == "JsonObjectLine"
JsonArray      == "JsonArray"

\* The body of LoadSetting.JsonFormat: the options of the JSON format.
JsonFormat(s, format) ==
    LET m1 == MapPut(s.settings, "format", "json")
        m2 == IF format = JsonObjectLine
              THEN MapPut(MapPut(m1, "strip_outer_array", "false"),
                          "read_json_by_line", "true")
              ELSE m1
        m3 == IF format = JsonArray
              THEN MapPut(m2, "strip_outer_array", "true")
              ELSE m2
    IN  [s EXCEPT !.settings = m3]

\* The body of LoadSetting.CsvFormat: the options of the CSV format.
CsvFormat(s, columnSeparator, lineDelimiter) ==
    LET m1 == MapPut(s.settings, "format", "csv")
        m2 == MapPut(m1, "column_separator", columnSeparator)
        m3 == MapPut(m2, "line_delimiter", lineDelimiter)
    IN  [s EXCEPT !.settings = m3]

\* Clone: a LoadSetting with the fields of s, its own option map and its own
\* endpoint list, and the retry pointer of s.
Clone(s) ==
    [settings    |-> [k \in DOMAIN s.settings |-> s.settings[k]],
     user        |-> s.user,
     password    |-> s.password,
     database    |-> s.database,
     table       |-> s.table,
     labelPrefix |-> s.labelPrefix,
     retry       |-> s.retry,
     batchMode   |-> s.batchMode,
     parsedNodes |-> [i \in 1..Len(s.parsedNodes) |-> s.parsedNodes[i]]]

\* GetOptions: a copy of the option map.
GetOptions(s) == [k \in DOMAIN s.settings |-> s.settings[k]]

\* fmt.Sprintf("%s_%s_%s_%d_%s", prefix, database, table, millis, id), for the
\* clock reading millis and the UUID id that uuid.New() returned.
generateLabel(labelPrefix, database, table, millis, id) ==
    labelPrefix \o "_" \o database \o "_" \o table \o "_"
        \o ToString(millis) \o "_" \o id

\* A label made of the clock reading alone, without the UUID.
GetLabelByClock(s, millis, id) ==
    generateLabel(s.labelPrefix, s.database, s.table, millis, "")

GetLabel(s, millis, id) ==
    generateLabel(s.labelPrefix, s.database, s.table, millis, id)

\* A validation of the credentials alone.
validateCredentials(s) ==
    IF s.user = "" THEN "user cannot be empty"
    ELSE IF s.password = "" THEN "password cannot be empty"
    ELSE ""

\* validate: the text of the error, "" for nil.
validate(s) ==
    IF s.user = "" THEN "user cannot be empty"
    ELSE IF s.password = "" THEN "password cannot be empty"
    ELSE IF s.database = "" THEN "database cannot be empty"
    ELSE IF s.table = "" THEN "table cannot be empty"
    ELSE IF Len(s.parsedNodes) = 0
         THEN "feNodes cannot be empty, please call AddFeNodes() first"
    ELSE IF ~s.retry.isNil /\ s.retry.maxRetryTimes < 0
         THEN "maxRetryTimes cannot be negative"
    ELSE IF ~s.retry.isNil /\ IsNegative(s.retry.retryIntervalMs)
         THEN "retryIntervalMs cannot be negative"
    ELSE ""

(***************************************************************************)
(* pkg/load: HttpPutBuilder                                                *)
(***************************************************************************)
\* The bytes net/textproto accepts in a header name besides letters and digits
\* (the apostrophe and the backquote, which it accepts too, are left out).
TokenPunctuation == "!#$%&*+-.^_|~"
Digits == "0123456789"

headerFieldBytes ==
    UNION { {SubSeq(a, i, i) : i \in 1..Len(a)} :
            a \in {LowerLetters, UpperLetters, Digits, TokenPunctuation} }

validHeaderFieldByte(c) == c \in headerFieldBytes

RECURSIVE canonicalFrom(_, _, _)
canonicalFrom(s, i, upper) ==
    IF i > Len(s) THEN ""
    ELSE LET c == SubSeq(s, i, i)
         IN  (IF upper THEN toUpperChar(c) ELSE toLowerChar(c))
                 \o canonicalFrom(s, i + 1, c = "-")

\* textproto.CanonicalMIMEHeaderKey, which http.Header.Set applies to the key:
\* the first letter and each letter after a hyphen in upper case, the others in
\* lower case; a key with a byte that no header name may hold is left as it is.
CanonicalMIMEHeaderKey(s) ==
    IF \A i \in 1..Len(s) : validHeaderFieldByte(SubSeq(s, i, i))
    THEN canonicalFrom(s, 1, TRUE)
    ELSE s

\* base64.StdEncoding.EncodeToString, kept symbolic: an injective encoding.
Base64(s) == "base64(" \o s \o ")"

\* BaseAuth(user, password): the Authorization header.
BaseAuth(headers, user, password) ==
    MapPut(headers, "Authorization", "Basic " \o Base64(user \o ":" \o password))

AddCommonHeader(headers) == MapPut(headers, "Expect", "100-continue")

SetLabel(headers, label) == MapPut(headers, "label", label)

AddProperties(headers, properties) == MapPutAll(headers, properties)

\* The io.Reader a caller hands to Load, with the data it has left to read:
\* nil, a strings.Reader or bytes.Reader, or a file, which is an io.Closer as
\* well and gives nothing once it is closed.
NilReader == [isNil |-> TRUE, data |-> "", closer |-> FALSE, closed |-> FALSE]
Reader(data) == [isNil |-> FALSE, data |-> data, closer |-> FALSE, closed |-> FALSE]
FileReader(data) == [isNil |-> FALSE, data |-> data, closer |-> TRUE, closed |-> FALSE]

\* The bytes a request whose body is the reader can send.
readable(body) == IF body.closed THEN "" ELSE body.data

\* The reader after httpClient.Do of a request it is the body of: the
\* transport has read n bytes of it, and has closed it if it is an io.Closer
\* (http.NewRequest wraps only the other readers into a NopCloser).
readerAfter(body, n) ==
    [body EXCEPT !.data = SubSeq(@, n + 1, Len(@)), !.closed = body.closer]

\* Build without its checks of the URL and of the body.
BuildUnchecked(url, headers, body) ==
    [err |-> NilErr,
     headers |-> IF "group_commit" \in DOMAIN headers
                 THEN MapDelete(headers, "label")
                 ELSE headers]

\* Build: the error (nil when the request is built) and the builder's headers
\* as the request receives them, the label deleted under group commit.
Build(url, headers, body) ==
    IF url = ""
    THEN [err |-> NewError("url cannot be empty", "request_construction"),
          headers |-> headers]
    ELSE IF body.isNil
    THEN [err |-> NewError("request body cannot be nil", "request_construction"),
          headers |-> headers]
    ELSE [err |-> NilErr,
          headers |-> IF "group_commit" \in DOMAIN headers
                      THEN MapDelete(headers, "label")
                      ELSE headers]

\* The canonical forms of the header names of the model, each computed once.
canonicalKeys ==
    [key \in {"Authorization", "Expect", "label", "Label", "group_commit", "format",
              "strip_outer_array", "read_json_by_line", "column_separator",
              "line_delimiter", "columns"}
        |-> CanonicalMIMEHeaderKey(key)]

headerKey(key) ==
    IF key \in DOMAIN canonicalKeys
    THEN canonicalKeys[key]
    ELSE CanonicalMIMEHeaderKey(key)

\* for key, value := range h.headers { req.Header.Set(key, value) }: the header
\* maps the request can end with.  Set stores under the canonical key, and the
\* range visits the keys in an unspecified order, so of the keys with one
\* canonical form any may be the last one set.
RequestHeaders(headers) ==
    LET canon     == {headerKey(k) : k \in DOMAIN headers}
        keysOf(c) == {k \in DOMAIN headers : headerKey(k) = c}
        winners   == {w \in [canon -> DOMAIN headers] :
                        \A c \in canon : w[c] \in keysOf(c)}
    IN  IF Cardinality(canon) = Cardinality(DOMAIN headers)
        THEN \* no two keys share a canonical form: the order does not matter
             { [c \in canon |-> headers[CHOOSE k \in keysOf(c) : TRUE]] }
        ELSE { [c \in canon |-> headers[w[c]]] : w \in winners }

(***************************************************************************)
(* pkg/load: StreamLoader                                                  *)
(*                                                                         *)
(* What the transport answers to one request is an input of the model:     *)
(* either httpClient.Do fails with an error, or it returns a response with *)
(* a status and a body (whose reading may fail).                           *)
(***************************************************************************)
StatusOK == 200

\* A failure of httpClient.Do with the given cause inside.
DoFailure(msg, timeout, temporary, cause) ==
    [kind |-> "error",
     err |-> [isNil |-> FALSE, msg |-> msg, netError |-> TRUE,
              timeout |-> timeout, temporary |-> temporary, cause |-> cause],
     StatusCode |-> 0, Status |-> "", body |-> "", readErr |-> NilErr]

\* A response whose body is read to its end.
HttpResponse(code, status, body) ==
    [kind |-> "response", err |-> NilErr, StatusCode |-> code,
     Status |-> status, body |-> body, readErr |-> NilErr]

\* A response whose body breaks off while it is read.
BrokenResponse(code, status, readErr) ==
    [kind |-> "response", err |-> NilErr, StatusCode |-> code,
     Status |-> status, body |-> "", readErr |-> readErr]

\* The *url.Error that http.Client.Do returns: Op "URL": Err.  It implements
\* net.Error, its Timeout and Temporary being those of the error inside.
UrlError(op, url, inner) ==
    [inner EXCEPT !.msg = op \o " \"" \o url \o "\": " \o inner.msg,
                  !.netError = TRUE]

\* The response bodies that are documents of the protocol's JSON schema, each
\* with the RespContent the JSON library decodes it to.
JsonDocuments ==
    { [text  |-> "{\"Status\":\"Success\",\"NumberLoadedRows\":100}",
       value |-> RespContent("Success", "", "", 100)],
      [text  |-> "{\"Status\":\"Fail\",\"Message\":\"too many filtered rows\"}",
       value |-> RespContent("Fail", "too many filtered rows", "", 0)],
      [text  |-> "{\"Status\":\"Fail\",\"Message\":\"backend unavailable\"}",
       value |-> RespContent("Fail", "backend unavailable", "", 0)],
      [text  |-> "{\"Status\":\"SUCCESS\",\"Message\":\"OK\",\"NumberLoadedRows\":3}",
       value |-> RespContent("SUCCESS", "OK", "", 3)],
      [text  |-> "{\"Status\":\"Publish Timeout\",\"Message\":\"OK\"}",
       value |-> RespContent("Publish Timeout", "OK", "", 0)],
      [text  |-> "{\"Status\":\"Publish Timeout\"}",
       value |-> RespContent("Publish Timeout", "", "", 0)],
      [text  |-> "{\"NumberLoadedRows\":0}",
       value |-> RespContent("", "", "", 0)],
      [text  |-> "{\"Status\":\"Fail\",\"Message\":\"too many filtered rows\","
                    \o "\"ErrorURL\":\"http://connect-be1:8040/api/_load_error_log\"}",
       value |-> RespContent("Fail", "too many filtered rows",
                             "http://connect-be1:8040/api/_load_error_log", 0)] }

Min(a, b) == IF a < b THEN a ELSE b

\* The error the JSON library (json-iterator) reports for a body that does not
\* start an object: Iterator.ReportError quotes the bytes around the place of
\* the error, up to 10 on each side and, as the bigger context, up to 50.
jsonError(body) ==
    LET head == IF body = "" THEN 0 ELSE 1
    IN  "readObjectStart: expect { or n, but found " \o SubSeq(body, 1, head)
            \o ", error found in #" \o ToString(head) \o " byte of ...|"
            \o SubSeq(body, 1, Min(Len(body), head + 10))
            \o "|..., bigger context ...|"
            \o SubSeq(body, 1, Min(Len(body), head + 50)) \o "|..."

\* s.json.Unmarshal(body, &respContent): the error text ("" for nil) and the
\* decoded content.
Unmarshal(body) ==
    IF \E d \in JsonDocuments : d.text = body
    THEN [err |-> "", value |-> (CHOOSE d \in JsonDocuments : d.text = body).value]
    ELSE [err |-> jsonError(body), value |-> RespContent("", "", "", 0)]

\* isSuccessStatus taking every status the server names for a success.
isSuccessStatusNonEmpty(status) == status # ""

\* isSuccessStatus comparing the case as well.
isSuccessStatusExact(status) == status = "success"

isSuccessStatus(status) == EqualFold(status, "success")

\* handleResponse giving a Failure the server's message field alone as its
\* error message.
handleResponseMessageOnly(resp) ==
    IF resp.StatusCode = StatusOK
    THEN IF ~resp.readErr.isNil
         THEN [response |-> NilResponse,
               err |-> Wrap("failed to read response body: ", resp.readErr)]
         ELSE LET parsed == Unmarshal(resp.body)
                  respContent == parsed.value
              IN  IF parsed.err # ""
                  THEN [response |-> NilResponse,
                        err |-> Wrap("failed to unmarshal response: ",
                                     NewError(parsed.err, "malformed_body"))]
                  ELSE IF isSuccessStatus(respContent.Status)
                  THEN [response |-> LoadResponse(SUCCESS, respContent, ""),
                        err |-> NilErr]
                  ELSE [response |->
                            LoadResponse(FAILURE, respContent, respContent.Message),
                        err |-> NilErr]
    ELSE [response |-> NilResponse,
          err |-> NewStreamLoadError("stream load error: " \o resp.Status)]

\* handleResponse: the (*LoadResponse, error) pair.
handleResponse(resp) ==
    IF resp.StatusCode = StatusOK
    THEN IF ~resp.readErr.isNil
         THEN [response |-> NilResponse,
               err |-> Wrap("failed to read response body: ", resp.readErr)]
         ELSE LET parsed == Unmarshal(resp.body)
                  respContent == parsed.value
              IN  IF parsed.err # ""
                  THEN [response |-> NilResponse,
                        err |-> Wrap("failed to unmarshal response: ",
                                     NewError(parsed.err, "malformed_body"))]
                  ELSE IF isSuccessStatus(respContent.Status)
                  THEN [response |-> LoadResponse(SUCCESS, respContent, ""),
                        err |-> NilErr]
                  ELSE [response |->
                            LoadResponse(FAILURE, respContent,
                                IF respContent.Message # ""
                                THEN "load failed. cause by: " \o respContent.Message
                                        \o ", please check more detail from url: "
                                        \o respContent.ErrorURL
                                ELSE resp.body),
                        err |-> NilErr]
    ELSE [response |-> NilResponse,
          err |-> NewStreamLoadError("stream load error: " \o resp.Status)]

\* fmt.Sprintf(LoadURLPattern, endpoint, database, table)
LoadURL(endpoint, database, table) ==
    "http://" \o endpoint \o "/api/" \o database \o "/" \o table \o "/_stream_load"

\* createRequest: the builder's Build for the settings, the loader's URL, the
\* label generated for this request and the caller's reader.
createRequest(s, loadURL, label, body) ==
    LET options == GetOptions(s)
        h1 == BaseAuth(EmptyMap, s.user, s.password)
        h2 == AddCommonHeader(h1)
        h3 == SetLabel(h2, label)
        h4 == AddProperties(h3, options)
    IN  Build(loadURL, h4, body)

(***************************************************************************)
(* The same at the level of the map objects.  A Go map is a reference: st  *)
(* is the option map of the LoadSetting (st.settings, reference 0) and the *)
(* maps made since, by address (st.heap).                                  *)
(***************************************************************************)
MapAt(st, ref) == IF ref = 0 THEN st.settings ELSE st.heap[ref]

WriteAt(st, ref, m) ==
    IF ref = 0 THEN [st EXCEPT !.settings = m] ELSE [st EXCEPT !.heap[ref] = m]

\* make(map[string]string): the new map is at the address Len(st.heap) + 1.
MakeMap(st) == [st EXCEPT !.heap = Append(@, EmptyMap)]

\* GetOptions returning the option map of the LoadSetting itself.
GetOptionsRefShared(st) == [st |-> st, ref |-> 0]

\* GetOptions: result := make(...), the entries of ls.settings written into
\* it one by one, return result.
GetOptionsRef(st) ==
    LET result == Len(st.heap) + 1
    IN  [st  |-> WriteAt(MakeMap(st), result,
                         MapPutAll(EmptyMap, MapAt(st, 0))),
         ref |-> result]

\* createRequest and Build: the maps after the call, and the reference of the
\* builder's header map as the request receives it.
createRequestRefs(s, label, st) ==
    LET options == GetOptionsRef(st)
        h  == Len(options.st.heap) + 1
        s0 == MakeMap(options.st)
        s1 == WriteAt(s0, h, BaseAuth(MapAt(s0, h), s.user, s.password))
        s2 == WriteAt(s1, h, AddCommonHeader(MapAt(s1, h)))
        s3 == WriteAt(s2, h, SetLabel(MapAt(s2, h), label))
        s4 == WriteAt(s3, h, AddProperties(MapAt(s3, h), MapAt(s3, options.ref)))
        s5 == IF "group_commit" \in DOMAIN MapAt(s4, h)
              THEN WriteAt(s4, h, MapDelete(MapAt(s4, h), "label"))
              ELSE s4
    IN  [st |-> s5, headers |-> h]

\* StreamLoader.Load for the transport's answer in: whether a request went out,
\* the builder's headers, and the (*LoadResponse, error) pair.
StreamLoaderLoad(s, loadURL, label, body, in) ==
    LET built == createRequest(s, loadURL, label, body)
    IN  IF ~built.err.isNil
        THEN [sent |-> FALSE, headers |-> built.headers, response |-> NilResponse,
              err |-> Wrap("failed to create request: ", built.err)]
        ELSE IF in.kind = "error"
        THEN [sent |-> TRUE, headers |-> built.headers, response |-> NilResponse,
              err |-> Wrap("failed to execute request: ",
                           UrlError("Put", loadURL, in.err))]
        ELSE LET r == handleResponse(in)
             IN  [sent |-> TRUE, headers |-> built.headers,
                  response |-> r.response, err |-> r.err]

(***************************************************************************)
(* The inputs of the model                                                 *)
(***************************************************************************)
\* The Load calls one client is followed through.
MaxLoads == 2
\* The milliseconds the clock is followed through.
MaxClock == 1
\* The concurrent callers of GetLabel, and the labels they are followed through.
MaxCallers == 2
MaxLabels == 3
\* The Retry objects the callers of Clone are followed through.
MaxRetryObjects == 2
\* The calls of GetHttpClient each of its callers is followed through.
MaxGets == 4
\* The maps the caller takes from GetOptions.
MaxCopies == 1

\* 2^62, a base interval whose doubling leaves the int64 range.
HugeInterval == <<0, 0, 0, 0, 0, 0, 0, 64>>

\* The int64 -1.
MinusOne64 == [i \in 1..IntBytes |-> Byte - 1]

Policies ==
    { NewDefaultRetry,
      NewRetry(0, FromNat(1000)),
      NewRetry(2, FromNat(100)),
      NewRetry(3, FromNat(5000)),
      NewRetry(2, HugeInterval),
      NewRetry(-1, FromNat(1000)),
      NewRetry(2, MinusOne64),
      NilRetry }

ConnectionRefused ==
    DoFailure("dial tcp 10.0.0.1:8030: connect: connection refused",
              FALSE, FALSE, "connection_refused")
ReadTimedOut ==
    DoFailure("read tcp 10.0.0.2:51234->10.0.0.1:8030: read: connection timed out",
              TRUE, FALSE, "timeout")
InvalidHeader ==
    DoFailure("net/http: invalid header field value for \"columns\"",
              FALSE, FALSE, "invalid_request")
BodyCutShort ==
    BrokenResponse(200, "200 OK", NewError("unexpected EOF", "end_of_input"))
\* The transport failing to read a request body that is a closed file.
FileAlreadyClosed ==
    DoFailure("read data.csv: file already closed", FALSE, FALSE, "closed_body")

\* What the transport answers to a request of the given body when in is what
\* it would answer otherwise: no response comes for a body it cannot read.
answerFor(body, in) ==
    IF body.closed /\ in.kind = "response" THEN FileAlreadyClosed ELSE in

SuccessBody == "{\"Status\":\"Success\",\"NumberLoadedRows\":100}"
FilteredBody == "{\"Status\":\"Fail\",\"Message\":\"too many filtered rows\"}"
UnavailableBody == "{\"Status\":\"Fail\",\"Message\":\"backend unavailable\"}"
UpperCaseBody == "{\"Status\":\"SUCCESS\",\"Message\":\"OK\",\"NumberLoadedRows\":3}"
PublishTimeoutBody == "{\"Status\":\"Publish Timeout\",\"Message\":\"OK\"}"
BarePublishTimeoutBody == "{\"Status\":\"Publish Timeout\"}"
NoStatusBody == "{\"NumberLoadedRows\":0}"
ErrorURLBody ==
    "{\"Status\":\"Fail\",\"Message\":\"too many filtered rows\","
        \o "\"ErrorURL\":\"http://connect-be1:8040/api/_load_error_log\"}"

\* The bodies that are documents of the protocol.
DocumentBodies ==
    { SuccessBody, FilteredBody, UnavailableBody, UpperCaseBody,
      PublishTimeoutBody, BarePublishTimeoutBody, NoStatusBody, ErrorURLBody }

\* Bodies that are no JSON at all.
MalformedBodies == { "", "<html>busy</html>", "upstream request timeout", "EOF" }

\* The status lines of the responses that are not 200 OK.
ErrorStatuses ==
    { <<307, "307 Temporary Redirect">>, <<500, "500 Internal Server Error">>,
      <<503, "503 Service Unavailable">> }

TransportAnswers ==
    { ConnectionRefused, ReadTimedOut, InvalidHeader, BodyCutShort }
    \cup { HttpResponse(200, "200 OK", b) :
            b \in DocumentBodies \cup MalformedBodies }
    \cup { HttpResponse(st[1], st[2], "") : st \in ErrorStatuses }

Readers == { NilReader, Reader("1,Alice,25") }

\* The nodes given to AddFeNodes, and the load URLs a client can be made with.
FeNode   == "http://fe1:8030"
FeNodes  == "http://fe1:8030,http://fe2:8030"
LoadURLs == { LoadURL(parseFeNodes(FeNodes)[i], "db", "tbl") :
                i \in 1..Len(parseFeNodes(FeNodes)) }

\* The value of the n-th uuid.New(): each draw is given a value of its own.
Uuid(n) == "uuid" \o ToString(n)

(***************************************************************************)
(* pkg/client: the error classifier and the backoff schedule               *)
(***************************************************************************)
retryableErrorPatterns ==
    << "connection refused", "connection reset", "connection timeout",
       "timeout", "network is unreachable", "no such host",
       "temporary failure", "dial tcp", "i/o timeout", "eof", "broken pipe",
       "connection aborted", "307 temporary redirect", "302 found",
       "301 moved permanently" >>

retryableResponsePatterns == << "connect", "unavailable", "timeout", "redirect" >>

\* errStr := strings.ToLower(text); for _, pattern := range patterns {
\*     if strings.Contains(errStr, pattern) { return true } }
matchesAny(text, patterns) ==
    LET lower == ToLower(text)
    IN  \E i \in 1..Len(patterns) : Contains(lower, patterns[i])

\* The texts the transport's answers of the model lead to, each searched for
\* the patterns once.
errorTexts ==
    { StreamLoaderLoad(NewLoadSetting, url, "", body, in).err.msg :
        url \in LoadURLs, body \in Readers, in \in TransportAnswers }
responseTexts ==
    { StreamLoaderLoad(NewLoadSetting, url, "", body, in).response.ErrorMessage :
        url \in LoadURLs, body \in Readers, in \in TransportAnswers }
errorTextMatches ==
    [text \in errorTexts |-> matchesAny(text, retryableErrorPatterns)]
responseTextMatches ==
    [text \in responseTexts |-> matchesAny(text, retryableResponsePatterns)]

\* A classifier that looks at the error and at the outcome alike.
isRetryableErrorEither(err, response) ==
    \/ /\ ~err.isNil
       /\ \/ err.netError /\ (err.timeout \/ err.temporary)
          \/ matchesAny(err.msg, retryableErrorPatterns)
    \/ /\ ~response.isNil
       /\ response.Status = FAILURE
       /\ matchesAny(response.ErrorMessage, retryableResponsePatterns)

isRetryableError(err, response) ==
    IF ~err.isNil
    THEN \/ err.netError /\ (err.timeout \/ err.temporary)
         \/ IF err.msg \in errorTexts
            THEN errorTextMatches[err.msg]
            ELSE matchesAny(err.msg, retryableErrorPatterns)
    ELSE /\ ~response.isNil
         /\ response.Status = FAILURE
         /\ response.ErrorMessage # ""
         /\ IF response.ErrorMessage \in responseTexts
            THEN responseTextMatches[response.ErrorMessage]
            ELSE matchesAny(response.ErrorMessage, retryableResponsePatterns)

\* const maxIntervalMs = 16000
maxIntervalMs == 16000

\* The backoff without its cap.
calculateBackoffIntervalUncapped(attempt, baseIntervalMs) ==
    IF attempt <= 0 THEN Zero64
    ELSE Millis64(Mul64(baseIntervalMs, OneShl(attempt - 1)))

\* The time.Duration returned for retry number attempt (an int, here a small
\* integer) and the int64 base interval.
calculateBackoffInterval(attempt, baseIntervalMs) ==
    IF attempt <= 0 THEN Zero64
    ELSE LET multiplier == OneShl(attempt - 1)
             intervalMs == Mul64(baseIntervalMs, multiplier)
             capped     == IF Gt64(intervalMs, FromNat(maxIntervalMs))
                           THEN FromNat(maxIntervalMs)
                           ELSE intervalMs
         IN  Millis64(capped)

\* The backoff intervals of the policies of the model, each computed once.
backoffArguments ==
    UNION { {<<attempt, p.retryIntervalMs>> : attempt \in 1..p.maxRetryTimes} :
              p \in Policies }
backoffIntervals ==
    [x \in backoffArguments |-> calculateBackoffInterval(x[1], x[2])]

backoffInterval(attempt, baseIntervalMs) ==
    IF <<attempt, baseIntervalMs>> \in backoffArguments
    THEN backoffIntervals[<<attempt, baseIntervalMs>>]
    ELSE calculateBackoffInterval(attempt, baseIntervalMs)

\* The loop sleeping before every attempt, the initial one included.
sleepBeforeEvery(attempt, baseIntervalMs) ==
    << backoffInterval(attempt + 1, baseIntervalMs) >>

\* The sleeps of one pass of the retry loop before its attempt: none before
\* the initial attempt, the backoff interval before a retry.
sleepBefore(attempt, baseIntervalMs) ==
    IF attempt > 0
    THEN << backoffInterval(attempt, baseIntervalMs) >>
    ELSE << >>

\* The loop leaving one attempt early: attempt counted from 1.
loopDecisionOffByOne(err, resp, attempt, maxRetryTimes) ==
    IF err.isNil /\ ~resp.isNil /\ resp.Status = SUCCESS THEN "success"
    ELSE IF ~isRetryableError(err, resp) THEN "non_retryable"
    ELSE IF attempt + 1 >= maxRetryTimes THEN "exhausted"
    ELSE "continue"

\* The loop without the classifier: every failure is retried.
loopDecisionRetriesAll(err, resp, attempt, maxRetryTimes) ==
    IF err.isNil /\ ~resp.isNil /\ resp.Status = SUCCESS THEN "success"
    ELSE IF attempt = maxRetryTimes THEN "exhausted"
    ELSE "continue"

\* What one pass of the loop does with the result of its attempt: return it
\* as the success, break out (not retryable, or the last attempt allowed), or
\* go on to the next attempt.
loopDecision(err, resp, attempt, maxRetryTimes) ==
    IF err.isNil /\ ~resp.isNil /\ resp.Status = SUCCESS THEN "success"
    ELSE IF ~isRetryableError(err, resp) THEN "non_retryable"
    ELSE IF attempt = maxRetryTimes THEN "exhausted"
    ELSE "continue"

\* Load returning an error that sums the attempts up.
finalResultAggregated(err, resp) ==
    IF ~err.isNil
    THEN [response |-> resp, err |-> Wrap("all attempts failed, last error: ", err)]
    ELSE [response |-> NilResponse,
          err |-> NewError("load failed: unknown error", "unknown")]

\* Load returning a Failure outcome on its own, as the last err of the loop
\* is nil.
finalResultQuiet(err, resp) ==
    IF ~err.isNil THEN [response |-> resp, err |-> err]
    ELSE IF ~resp.isNil
    THEN [response |-> resp, err |-> NilErr]
    ELSE [response |-> NilResponse,
          err |-> NewError("load failed: unknown error", "unknown")]

\* What Load returns once the loop is left without a success.
finalResult(err, resp) ==
    IF ~err.isNil THEN [response |-> resp, err |-> err]
    ELSE IF ~resp.isNil
    THEN [response |-> resp,
          err |-> NewError("load failed with status: " \o resp.Status,
                           "load_failed")]
    ELSE [response |-> NilResponse,
          err |-> NewError("load failed: unknown error", "unknown")]

(***************************************************************************)
(* The state                                                               *)
(***************************************************************************)
VARIABLES
    ls,             \* the LoadSetting the caller builds and the client keeps
    client,         \* the DorisLoadClient: its loader's loadURL
    newErr,         \* the text of the error of the last NewDorisClient
    pc,             \* "config", "idle", "loading"; "panic" and "exit" end the process
    reader,         \* Load's argument
    maxRetries,     \* Load's locals
    baseIntervalMs,
    attempt,
    lastErr,
    response,
    ret,            \* what the last Load returned
    labels,         \* the label generated for each attempt of this Load, in order
    sleeps,         \* the durations this Load slept, in order
    lastReq,        \* the request of the last attempt
    answer,         \* what the transport answered to it
    loggedLabel,    \* the label Load generated for its log line
    uuidSeq,        \* the UUIDs drawn so far
    now,            \* the clock, in milliseconds
    loads,          \* the Load calls started
    bodies,         \* for each request of this Load, the bytes its body had
                    \* to send and how many of them the transport read
    oldLabels,      \* the labels of the requests of the earlier Loads
    shouldRetry,    \* what isRetryableError(lastErr, response) answered
    settingsOf,     \* the LoadSetting objects "s" and, once cloned, "c"
    retries,        \* the Retry objects, by address
    lastOp,         \* the object the last method was called on
    callers,        \* the concurrent callers of GetLabel
    issued,         \* the labels GetLabel has returned, in order
    once,           \* util's sync.Once: its done flag and the holder of its mutex
    httpClient,     \* util's package variable client: 0 for nil, or an instance
    builds,         \* the runs of buildHttpClient so far
    getters,        \* the concurrent callers of GetHttpClient
    calls,          \* the Load call of each of the concurrent callers of one
                    \* client: its locals, and the answers its requests got
    copies          \* the maps GetOptions has made, by address, and the
                    \* references it has returned to the caller, in order

vars == << ls, client, newErr, pc, reader, maxRetries, baseIntervalMs, attempt,
           lastErr, response, ret, labels, sleeps, lastReq, answer,
           loggedLabel, uuidSeq, now, loads, bodies, oldLabels, shouldRetry,
           settingsOf, retries, lastOp, callers, issued, once, httpClient,
           builds, getters, calls, copies >>

\* What the client and its Load calls leave alone.
auxVars == << shouldRetry, settingsOf, retries, lastOp, callers, issued,
              getters, calls, copies >>

\* The shared transport client of package util.
poolVars == << once, httpClient, builds >>

callVars == << reader, maxRetries, baseIntervalMs, attempt, lastErr, response,
               ret, labels, sleeps, lastReq, answer, loggedLabel, uuidSeq,
               loads, bodies, oldLabels >>

NilClient == [isNil |-> TRUE, loadURL |-> ""]
NoReturn  == [done |-> FALSE, response |-> NilResponse, err |-> NilErr,
              via |-> "none"]
NoRequest == [sent |-> FALSE, url |-> "", header |-> EmptyMap, label |-> ""]
NoAnswer  == [kind |-> "none", err |-> NilErr, StatusCode |-> 0, Status |-> "",
              body |-> "", readErr |-> NilErr]

\* isRetryableError not called yet.
NotClassified == [set |-> FALSE, value |-> FALSE]

\* A LoadSetting as NewLoadSetting makes it, its *Retry being the address of
\* a Retry object (0 for nil).
NewSettingAt(address) == [NewLoadSetting EXCEPT !.retry = address]

\* A caller that is not inside GetLabel.
IdleCaller == [pc |-> "idle", millis |-> 0]

\* A sync.Once nobody has entered, and a caller that is not inside
\* GetHttpClient, with the instances its calls have returned.
NewOnce == [done |-> 0, m |-> 0]
IdleGetter == [pc |-> "idle", got |-> << >>]

\* A concurrent caller that has not called Load.
IdleCall ==
    [pc |-> "idle", reader |-> NilReader, maxRetries |-> 0,
     baseIntervalMs |-> Zero64, attempt |-> 0, lastErr |-> NilErr,
     response |-> NilResponse, ret |-> NoReturn, sleeps |-> << >>,
     answers |-> << >>]

\* No map made by GetOptions yet.
NoCopies == [heap |-> << >>, refs |-> << >>]

\* Before the first call: no client, no Load, no label.
NothingCalled ==
    /\ client = NilClient
    /\ newErr = ""
    /\ pc = "config"
    /\ reader = NilReader
    /\ maxRetries = 0
    /\ baseIntervalMs = Zero64
    /\ attempt = 0
    /\ lastErr = NilErr
    /\ response = NilResponse
    /\ ret = NoReturn
    /\ labels = << >>
    /\ sleeps = << >>
    /\ lastReq = NoRequest
    /\ answer = NoAnswer
    /\ loggedLabel = ""
    /\ uuidSeq = 0
    /\ now = 0
    /\ loads = 0
    /\ bodies = << >>
    /\ oldLabels = {}
    /\ shouldRetry = NotClassified
    /\ settingsOf = [o \in {"s"} |-> NewSettingAt(1)]
    /\ retries = << NewDefaultRetry >>
    /\ lastOp = "s"
    /\ callers = [g \in 1..MaxCallers |-> IdleCaller]
    /\ issued = << >>
    /\ once = NewOnce
    /\ httpClient = 0
    /\ builds = 0
    /\ getters = [g \in 1..MaxCallers |-> IdleGetter]
    /\ calls = [g \in 1..MaxCallers |-> IdleCall]
    /\ copies = NoCopies

Init ==
    /\ ls = NewLoadSetting
    /\ NothingCalled

(***************************************************************************)
(* The builder methods of LoadSetting, called before the client is made    *)
(***************************************************************************)
Configure(next) ==
    /\ pc = "config"
    /\ ls' = next
    /\ UNCHANGED << client, newErr, pc, now >>
    /\ UNCHANGED callVars
    /\ UNCHANGED auxVars
    /\ UNCHANGED poolVars

\* AddFeNodes adding the parsed nodes to those of the earlier calls.
AddFeNodesAppending(feNodes) ==
    Configure([ls EXCEPT !.parsedNodes = @ \o parseFeNodes(feNodes)])

SetUser(user)         == Configure([ls EXCEPT !.user = user])
SetPassword(password) == Configure([ls EXCEPT !.password = password])
Database(database)    == Configure([ls EXCEPT !.database = database])
Table(table)          == Configure([ls EXCEPT !.table = table])
SetLabelPrefix(prefix) == Configure([ls EXCEPT !.labelPrefix = prefix])
AddFeNodes(feNodes)   == Configure([ls EXCEPT !.parsedNodes = parseFeNodes(feNodes)])
Retry(retry)          == Configure([ls EXCEPT !.retry = retry])
BatchMode(mode)       == Configure(withBatchMode(ls, mode))
AddOption(key, value) ==
    Configure([ls EXCEPT !.settings = MapPut(ls.settings, key, value)])

\* A builder method that makes the client choose its endpoint anew from the
\* list of the changed LoadSetting.
ReconfigureRetargeting(next) ==
    /\ pc = "idle"
    /\ ls' = next
    /\ client' = IF Len(next.parsedNodes) = 0
                 THEN client
                 ELSE [client EXCEPT !.loadURL =
                          LoadURL(next.parsedNodes[Len(next.parsedNodes)],
                                  next.database, next.table)]
    /\ UNCHANGED << newErr, pc, now >>
    /\ UNCHANGED callVars
    /\ UNCHANGED auxVars
    /\ UNCHANGED poolVars

\* A builder method called on the LoadSetting after a client was made from
\* it: the client holds the same object, and sees the change at its next Load.
Reconfigure(next) ==
    /\ pc = "idle"
    /\ ls' = next
    /\ UNCHANGED << client, newErr, pc, now >>
    /\ UNCHANGED callVars
    /\ UNCHANGED auxVars
    /\ UNCHANGED poolVars

\* settings.GetRetry().SetMaxRetryTimes(n), called on the policy of the
\* LoadSetting a client holds, between its Loads or during one: the client
\* holds the same LoadSetting, and the LoadSetting the same Retry.
RetrySetMaxRetryTimes(n) ==
    /\ pc \in {"idle", "loading"}
    /\ ~ls.retry.isNil
    /\ ls' = [ls EXCEPT !.retry.maxRetryTimes = n]
    /\ UNCHANGED << client, newErr, pc, now >>
    /\ UNCHANGED callVars
    /\ UNCHANGED auxVars
    /\ UNCHANGED poolVars

\* The maps of the state: the option map of ls, and those GetOptions made.
Maps == [settings |-> ls.settings, heap |-> copies.heap]

\* options := settings.GetOptions(), called by the caller at any time.
CallGetOptions ==
    /\ pc \in {"config", "idle"}
    /\ Len(copies.refs) < MaxCopies
    /\ \E got \in {GetOptionsRef(Maps)} :
          /\ ls' = [ls EXCEPT !.settings = got.st.settings]
          /\ copies' = [heap |-> got.st.heap,
                        refs |-> Append(copies.refs, got.ref)]
    /\ UNCHANGED << client, newErr, pc, now, shouldRetry, settingsOf, retries,
                    lastOp, callers, issued, getters, calls >>
    /\ UNCHANGED callVars
    /\ UNCHANGED poolVars

\* options[key] = value, on the map the i-th GetOptions returned.
WriteReturned(i, key, value) ==
    /\ pc \in {"config", "idle"}
    /\ i \in DOMAIN copies.refs
    /\ \E st \in {WriteAt(Maps, copies.refs[i],
                          MapPut(MapAt(Maps, copies.refs[i]), key, value))} :
          /\ ls' = [ls EXCEPT !.settings = st.settings]
          /\ copies' = [copies EXCEPT !.heap = st.heap]
    /\ UNCHANGED << client, newErr, pc, now, shouldRetry, settingsOf, retries,
                    lastOp, callers, issued, getters, calls >>
    /\ UNCHANGED callVars
    /\ UNCHANGED poolVars

(***************************************************************************)
(* NewDorisClient: validate, then NewStreamLoader, which picks the         *)
(* endpoint of the load URL at random among the parsed nodes.              *)
(***************************************************************************)
NewDorisClient ==
    /\ pc = "config"
    /\ LET err == validate(ls)
       IN  IF err # ""
           THEN /\ newErr' = "invalid load settings: " \o err
                /\ UNCHANGED << client, pc >>
           ELSE /\ \E randomIndex \in 1..Len(ls.parsedNodes) :
                       client' = [isNil   |-> FALSE,
                                  loadURL |-> LoadURL(ls.parsedNodes[randomIndex],
                                                      ls.database, ls.table)]
                /\ newErr' = ""
                /\ pc' = "idle"
    /\ IF validate(ls) = "" /\ once.done = 0
       THEN \* NewStreamLoader: util.GetHttpClient(), the first call of it,
            \* with no other caller inside the sync.Once
            /\ once.m = 0
            /\ once' = [once EXCEPT !.done = 1]
            /\ httpClient' = builds + 1
            /\ builds' = builds + 1
       ELSE UNCHANGED poolVars
    /\ UNCHANGED << ls, now >>
    /\ UNCHANGED callVars
    /\ UNCHANGED auxVars

(***************************************************************************)
(* DorisLoadClient.Load, up to the retry loop: the policy is read, the     *)
(* target and a label are logged.                                          *)
(***************************************************************************)
Range(f) == {f[i] : i \in DOMAIN f}

Load(r) ==
    /\ pc = "idle"
    /\ loads < MaxLoads
    /\ loads' = loads + 1
    /\ reader' = r
    /\ oldLabels' = oldLabels \cup Range(labels)
    /\ labels' = << >>
    /\ sleeps' = << >>
    /\ bodies' = << >>
    /\ lastReq' = NoRequest
    /\ answer' = NoAnswer
    /\ lastErr' = NilErr
    /\ response' = NilResponse
    /\ attempt' = 0
    /\ IF ls.retry.isNil
       THEN \* retry.GetMaxRetryTimes() on the nil *Retry
            /\ pc' = "panic"
            /\ ret' = NoReturn
            /\ UNCHANGED << maxRetries, baseIntervalMs, loggedLabel, uuidSeq >>
       ELSE /\ maxRetries' = ls.retry.maxRetryTimes
            /\ baseIntervalMs' = ls.retry.retryIntervalMs
            /\ IF Len(ls.parsedNodes) = 0
               THEN \* GetEndpoint: log.Fatalf
                    /\ pc' = "exit"
                    /\ ret' = NoReturn
                    /\ UNCHANGED << loggedLabel, uuidSeq >>
               ELSE /\ loggedLabel' = GetLabel(ls, now, Uuid(uuidSeq + 1))
                    /\ uuidSeq' = uuidSeq + 1
                    /\ IF 0 <= ls.retry.maxRetryTimes
                       THEN /\ pc' = "loading"
                            /\ ret' = NoReturn
                       ELSE \* the loop body never runs
                            /\ pc' = "idle"
                            /\ ret' = [done |-> TRUE, via |-> "no_attempt"]
                                      @@ finalResult(NilErr, NilResponse)
    /\ UNCHANGED << ls, client, newErr, now >>
    /\ UNCHANGED auxVars
    /\ UNCHANGED poolVars

(***************************************************************************)
(* One pass of the retry loop: the backoff sleep of a retry, the attempt   *)
(* (StreamLoader.Load, with the transport's answer in and the n bytes it   *)
(* reads of the body), and the decision; when the loop is left, what Load  *)
(* returns.                                                                *)
(***************************************************************************)
Attempt(in, n) ==
    /\ pc = "loading"
    /\ \E label \in {GetLabel(ls, now, Uuid(uuidSeq + 1))} :
       \E r \in {StreamLoaderLoad(ls, client.loadURL, label, reader,
                                 answerFor(reader, in))} :
       \E decision \in {loopDecision(r.err, r.response, attempt, maxRetries)} :
           /\ sleeps' = sleeps \o sleepBefore(attempt, baseIntervalMs)
           /\ labels' = Append(labels, label)
           /\ uuidSeq' = uuidSeq + 1
           /\ \E header \in RequestHeaders(r.headers) :
                  lastReq' = IF r.sent
                             THEN [sent |-> TRUE, url |-> client.loadURL,
                                   header |-> header, label |-> label]
                             ELSE [NoRequest EXCEPT !.label = label]
           /\ answer' = IF r.sent THEN answerFor(reader, in) ELSE NoAnswer
           /\ IF r.sent
              THEN /\ n <= Len(readable(reader))
                   /\ bodies' = Append(bodies, [offered |-> readable(reader),
                                                read    |-> n])
                   /\ reader' = readerAfter(reader, n)
              ELSE /\ n = 0
                   /\ UNCHANGED << bodies, reader >>
           /\ response' = r.response
           /\ lastErr' = r.err
           /\ CASE decision = "success" ->
                     /\ ret' = [done |-> TRUE, response |-> r.response,
                                err |-> NilErr, via |-> decision]
                     /\ pc' = "idle"
                     /\ attempt' = attempt
                [] decision = "continue" ->
                     /\ attempt' = attempt + 1
                     /\ UNCHANGED << ret, pc >>
                [] OTHER ->
                     /\ ret' = [done |-> TRUE, via |-> decision]
                               @@ finalResult(r.err, r.response)
                     /\ pc' = "idle"
                     /\ attempt' = attempt
    /\ UNCHANGED << ls, client, newErr, maxRetries, baseIntervalMs,
                    loggedLabel, now, loads, oldLabels >>
    /\ UNCHANGED auxVars
    /\ UNCHANGED poolVars

\* The pass of the loop in the specifications that do not follow the stream:
\* the attempts that read nothing of the body.
LoadAttempt(in) == Attempt(in, 0)

(***************************************************************************)
(* isRetryableError, called on its own with an error and an outcome        *)
(***************************************************************************)
\* The errors given to the classifier: those StreamLoader.Load returns, the
\* errors of the transport as they are, and an error of the server's.
ClassifierErrors ==
    { StreamLoaderLoad(NewLoadSetting, LoadURL("fe1:8030", "db", "tbl"), "",
                       Reader("1,Alice,25"), in).err : in \in TransportAnswers }
    \cup { ReadTimedOut.err, InvalidHeader.err,
           NewError("invalid column count", "invalid_request") }

\* The outcomes given with them: those StreamLoader.Load returns, and a
\* Failure without a message.
ClassifierResponses ==
    { StreamLoaderLoad(NewLoadSetting, LoadURL("fe1:8030", "db", "tbl"), "",
                       Reader("1,Alice,25"), in).response : in \in TransportAnswers }
    \cup { LoadResponse(FAILURE, RespContent("Fail", "", "", 0), "") }

Classify(err, resp) ==
    /\ lastErr' = err
    /\ response' = resp
    /\ shouldRetry' = [set |-> TRUE, value |-> isRetryableError(err, resp)]
    /\ UNCHANGED << ls, client, newErr, pc, reader, maxRetries, baseIntervalMs,
                    attempt, ret, labels, sleeps, lastReq, answer, loggedLabel,
                    uuidSeq, now, loads, bodies, oldLabels, settingsOf,
                    retries, lastOp, callers, issued, getters, calls,
                    copies >>
    /\ UNCHANGED poolVars

(***************************************************************************)
(* A LoadSetting "s" and its clone "c", each changed through its methods.  *)
(* The retry field of a LoadSetting is the address of a Retry object in    *)
(* retries, 0 for nil.                                                     *)
(***************************************************************************)
cloneFrame ==
    UNCHANGED << ls, client, newErr, pc, now, shouldRetry, callers, issued,
                 getters, calls, copies >>
    /\ UNCHANGED callVars
    /\ UNCHANGED poolVars

\* A method of the LoadSetting o that changes its fields into those of next.
Call(o, next) ==
    /\ o \in DOMAIN settingsOf
    /\ settingsOf' = [settingsOf EXCEPT ![o] = next]
    /\ lastOp' = o
    /\ UNCHANGED retries
    /\ cloneFrame

\* SetUser, SetLabelPrefix, AddOption, JsonFormat, BatchMode and AddFeNodes,
\* called on the LoadSetting x.
BuilderCalls(x) ==
    { [x EXCEPT !.user = "alice"],
      [x EXCEPT !.labelPrefix = "app"],
      [x EXCEPT !.settings = MapPut(x.settings, "columns", "id,name")],
      JsonFormat(x, JsonArray),
      withBatchMode(x, OFF),
      [x EXCEPT !.parsedNodes = parseFeNodes(FeNode)] }

CallBuilder(o) ==
    \E next \in BuilderCalls(settingsOf[o]) : Call(o, next)

\* o.Retry(retry) for a new Retry object, or for nil.
RetryOn(o, retry) ==
    /\ o \in DOMAIN settingsOf
    /\ IF retry.isNil
       THEN /\ settingsOf' = [settingsOf EXCEPT ![o].retry = 0]
            /\ UNCHANGED retries
       ELSE /\ Len(retries) < MaxRetryObjects
            /\ retries' = Append(retries, retry)
            /\ settingsOf' = [settingsOf EXCEPT ![o].retry = Len(retries) + 1]
    /\ lastOp' = o
    /\ cloneFrame

\* o.GetRetry().SetMaxRetryTimes(n)
SetMaxRetryTimes(o, n) ==
    /\ o \in DOMAIN settingsOf
    /\ settingsOf[o].retry # 0
    /\ retries' = [retries EXCEPT ![settingsOf[o].retry].maxRetryTimes = n]
    /\ lastOp' = o
    /\ UNCHANGED settingsOf
    /\ cloneFrame

\* o.BatchMode(mode), o.AddOption(key, value), o.AddOptions(options),
\* o.CsvFormat(columnSeparator, lineDelimiter) and o.JsonFormat(format).
BatchModeOn(o, mode) ==
    /\ o \in DOMAIN settingsOf
    /\ Call(o, withBatchMode(settingsOf[o], mode))

AddOptionOn(o, key, value) ==
    /\ o \in DOMAIN settingsOf
    /\ Call(o, [settingsOf[o] EXCEPT !.settings = MapPut(@, key, value)])

AddOptionsOn(o, options) ==
    /\ o \in DOMAIN settingsOf
    /\ Call(o, [settingsOf[o] EXCEPT !.settings = MapPutAll(@, options)])

CsvFormatOn(o, columnSeparator, lineDelimiter) ==
    /\ o \in DOMAIN settingsOf
    /\ Call(o, CsvFormat(settingsOf[o], columnSeparator, lineDelimiter))

JsonFormatOn(o, format) ==
    /\ o \in DOMAIN settingsOf
    /\ Call(o, JsonFormat(settingsOf[o], format))

\* c := s.Clone()
CloneSetting ==
    /\ DOMAIN settingsOf = {"s"}
    /\ settingsOf' = [o \in {"s", "c"} |->
                         IF o = "s" THEN settingsOf["s"] ELSE Clone(settingsOf["s"])]
    /\ lastOp' = "s"
    /\ UNCHANGED retries
    /\ cloneFrame

(***************************************************************************)
(* GetLabel, called by concurrent callers that share one LoadSetting       *)
(***************************************************************************)
\* The LoadSettings the callers share.
LabelSettings ==
    { [NewLoadSetting EXCEPT !.database = "db", !.table = "tbl",
                             !.labelPrefix = prefix] : prefix \in {"", "app"} }

InitLabels ==
    /\ ls \in LabelSettings
    /\ NothingCalled

labelFrame ==
    UNCHANGED << ls, client, newErr, pc, reader, maxRetries, baseIntervalMs,
                 attempt, lastErr, response, ret, labels, sleeps, lastReq,
                 answer, loggedLabel, now, loads, bodies, oldLabels,
                 shouldRetry, settingsOf, retries, lastOp, getters, calls,
                 copies >>
    /\ UNCHANGED poolVars

\* The callers inside GetLabel.
Timed == {g \in DOMAIN callers : callers[g].pc = "timed"}

\* The caller g enters GetLabel and reads the clock: time.Now().UnixMilli().
ReadClock(g) ==
    /\ callers[g].pc = "idle"
    /\ Len(issued) + Cardinality(Timed) < MaxLabels
    /\ callers' = [callers EXCEPT ![g] = [pc |-> "timed", millis |-> now]]
    /\ UNCHANGED << issued, uuidSeq >>
    /\ labelFrame

\* The caller g draws its UUID, formats the label and returns it.
ReturnLabel(g) ==
    /\ callers[g].pc = "timed"
    /\ uuidSeq' = uuidSeq + 1
    /\ issued' = Append(issued,
                        [label  |-> GetLabel(ls, callers[g].millis, Uuid(uuidSeq + 1)),
                         millis |-> callers[g].millis,
                         id     |-> Uuid(uuidSeq + 1)])
    /\ callers' = [callers EXCEPT ![g] = IdleCaller]
    /\ labelFrame

\* A millisecond passes.
Tick ==
    /\ now < MaxClock
    /\ now' = now + 1
    /\ UNCHANGED << ls, client, newErr, pc >>
    /\ UNCHANGED callVars
    /\ UNCHANGED auxVars
    /\ UNCHANGED poolVars

(***************************************************************************)
(* DorisLoadClient.Load called by concurrent callers on one client: each   *)
(* call has its own reader and its own locals (retry, maxRetries,          *)
(* baseIntervalMs, lastErr, response, attempt); the client, its settings   *)
(* and the source of the UUIDs are shared.  A pass of one call's loop is   *)
(* one step; time.Sleep holds up the goroutine that calls it.              *)
(***************************************************************************)
callFrame ==
    UNCHANGED << ls, client, newErr, now, reader, maxRetries, baseIntervalMs,
                 attempt, lastErr, response, ret, labels, sleeps, lastReq,
                 answer, loggedLabel, loads, bodies, oldLabels, shouldRetry,
                 settingsOf, retries, lastOp, callers, issued, getters,
                 copies >>
    /\ UNCHANGED poolVars

\* The call of Load by the caller g, up to the loop.  A panic or log.Fatalf
\* in one goroutine ends the process.
LoadBy(g, r) ==
    /\ pc = "idle"
    /\ calls[g].pc = "idle"
    /\ IF ls.retry.isNil
       THEN /\ pc' = "panic"
            /\ UNCHANGED << calls, uuidSeq >>
       ELSE IF Len(ls.parsedNodes) = 0
       THEN /\ pc' = "exit"
            /\ UNCHANGED << calls, uuidSeq >>
       ELSE /\ calls' =
                [calls EXCEPT ![g] =
                    [IdleCall EXCEPT
                        !.reader = r,
                        !.maxRetries = ls.retry.maxRetryTimes,
                        !.baseIntervalMs = ls.retry.retryIntervalMs,
                        !.pc = IF 0 <= ls.retry.maxRetryTimes
                               THEN "loading" ELSE "done",
                        !.ret = IF 0 <= ls.retry.maxRetryTimes
                                THEN NoReturn
                                ELSE [done |-> TRUE, via |-> "no_attempt"]
                                     @@ finalResult(NilErr, NilResponse)]]
            /\ uuidSeq' = uuidSeq + 1
            /\ pc' = pc
    /\ callFrame

\* The loop counter as a variable the calls of a client share.
attemptShared(cs, g) ==
    CHOOSE n \in {cs[h].attempt : h \in DOMAIN cs} :
        \A h \in DOMAIN cs : cs[h].attempt <= n

\* The loop counter of the call of g: the local variable attempt of its Load.
attemptOf(cs, g) == cs[g].attempt

\* One pass of the loop of the call of g, with the transport's answer in to
\* its request.
AttemptBy(g, in) ==
    /\ pc = "idle"
    /\ calls[g].pc = "loading"
    /\ \E f \in {calls[g]} :
       \E n \in {attemptOf(calls, g)} :
       \E r \in {StreamLoaderLoad(ls, client.loadURL,
                                  GetLabel(ls, now, Uuid(uuidSeq + 1)),
                                  f.reader, answerFor(f.reader, in))} :
       \E decision \in {loopDecision(r.err, r.response, n, f.maxRetries)} :
           calls' =
             [calls EXCEPT ![g] =
                 [f EXCEPT
                     !.sleeps = @ \o sleepBefore(n, f.baseIntervalMs),
                     !.answers = IF r.sent
                                 THEN Append(@, answerFor(f.reader, in)) ELSE @,
                     !.reader = IF r.sent THEN readerAfter(@, 0) ELSE @,
                     !.response = r.response,
                     !.lastErr = r.err,
                     !.attempt = IF decision = "continue" THEN n + 1 ELSE n,
                     !.pc = IF decision = "continue" THEN "loading" ELSE "done",
                     !.ret = CASE decision = "success" ->
                                    [done |-> TRUE, response |-> r.response,
                                     err |-> NilErr, via |-> decision]
                               [] decision = "continue" -> @
                               [] OTHER ->
                                    [done |-> TRUE, via |-> decision]
                                    @@ finalResult(r.err, r.response)]]
    /\ uuidSeq' = uuidSeq + 1
    /\ pc' = pc
    /\ callFrame

(***************************************************************************)
(* util.GetHttpClient: once.Do(func() { client = buildHttpClient() }) and  *)
(* the return of client, step by step for each of the concurrent callers.  *)
(* sync.Once.Do reads the done flag and returns if it is set; else it      *)
(* takes the mutex, reads the flag again, runs the function if it is still *)
(* unset, sets the flag and gives the mutex back.                          *)
(***************************************************************************)
getterFrame ==
    UNCHANGED << ls, client, newErr, pc, now, shouldRetry, settingsOf,
                 retries, lastOp, callers, issued, calls, copies >>
    /\ UNCHANGED callVars

\* The step of a caller g of GetHttpClient from the place from to the place to.
Goes(g, from, to) ==
    /\ getters[g].pc = from
    /\ getters' = [getters EXCEPT ![g].pc = to]

\* The call, and the read of the done flag outside the mutex.
GetHttpClient(g) ==
    /\ Len(getters[g].got) < MaxGets
    /\ Goes(g, "idle", IF once.done = 1 THEN "return" ELSE "lock")
    /\ UNCHANGED poolVars
    /\ getterFrame

\* o.m.Lock()
OnceLock(g) ==
    /\ once.m = 0
    /\ Goes(g, "lock", "locked")
    /\ once' = [once EXCEPT !.m = g]
    /\ UNCHANGED << httpClient, builds >>
    /\ getterFrame

\* Once.Do running the function without reading the flag again.
OnceCheckUnguarded(g) ==
    /\ Goes(g, "locked", "build")
    /\ UNCHANGED poolVars
    /\ getterFrame

\* The read of the done flag under the mutex.
OnceCheck(g) ==
    /\ Goes(g, "locked", IF once.done = 0 THEN "build" ELSE "unlock")
    /\ UNCHANGED poolVars
    /\ getterFrame

\* client = buildHttpClient(): a new *http.Client, complete when it is stored.
buildHttpClient(g) ==
    /\ Goes(g, "build", "store")
    /\ httpClient' = builds + 1
    /\ builds' = builds + 1
    /\ UNCHANGED once
    /\ getterFrame

\* o.done.Store(1)
OnceStore(g) ==
    /\ Goes(g, "store", "unlock")
    /\ once' = [once EXCEPT !.done = 1]
    /\ UNCHANGED << httpClient, builds >>
    /\ getterFrame

\* o.m.Unlock()
OnceUnlock(g) ==
    /\ Goes(g, "unlock", "return")
    /\ once' = [once EXCEPT !.m = 0]
    /\ UNCHANGED << httpClient, builds >>
    /\ getterFrame

\* return client
ReturnClient(g) ==
    /\ getters[g].pc = "return"
    /\ getters' = [getters EXCEPT ![g] = [pc  |-> "idle",
                                          got |-> Append(@.got, httpClient)]]
    /\ UNCHANGED poolVars
    /\ getterFrame

(***************************************************************************)
(* The specifications                                                      *)
(***************************************************************************)
\* The answers the attempts of Spec get: a transient and a lasting failure of
\* the transport, a success, and a Failure outcome of either kind.
LoopAnswers ==
    { ConnectionRefused, InvalidHeader,
      HttpResponse(200, "200 OK", SuccessBody),
      HttpResponse(200, "200 OK", FilteredBody),
      HttpResponse(200, "200 OK", UnavailableBody) }

\* The retry loop of a client of one node under every policy.
Next ==
    \/ SetUser("root")
    \/ SetPassword("secret")
    \/ Database("db")
    \/ Table("tbl")
    \/ AddFeNodes(FeNode)
    \/ \E retry \in Policies : Retry(retry)
    \/ BatchMode(OFF)
    \/ NewDorisClient
    \/ \E r \in Readers : Load(r)
    \/ \E in \in LoopAnswers : LoadAttempt(in)
    \/ Tick

Spec == Init /\ [][Next]_vars

\* The retry loop of Spec with every attempt coming to its end: a request is
\* answered or times out, and a sleep is over after its duration.
SpecTerminates ==
    Init /\ [][Next]_vars /\ WF_vars(\E in \in LoopAnswers : LoadAttempt(in))

\* The node lists given to AddFeNodes in SpecNodes: none, one node, two nodes
\* in either order, another node.
NodeInputs ==
    { "", FeNode, FeNodes, "http://fe2:8030,http://fe1:8030", "http://fe3:8030" }

\* A LoadSetting whose nodes are set again and again before the client is
\* made.
NextNodes ==
    \/ SetUser("root")
    \/ SetPassword("secret")
    \/ Database("db")
    \/ Table("tbl")
    \/ \E feNodes \in NodeInputs : AddFeNodes(feNodes)
    \/ NewDorisClient

SpecNodes == Init /\ [][NextNodes]_vars

\* The data of the streams of SpecStream, the readers over it, and what the
\* transport answers there.
StreamData == "1,A"
StreamReaders == { Reader(StreamData), FileReader(StreamData) }
StreamAnswers ==
    { ConnectionRefused,
      HttpResponse(200, "200 OK", UnavailableBody),
      HttpResponse(200, "200 OK", SuccessBody) }

\* The retry loop with the stream followed: each attempt's transport reads
\* none, some or all of what the reader has left.
NextStream ==
    \/ SetUser("root")
    \/ SetPassword("secret")
    \/ Database("db")
    \/ Table("tbl")
    \/ AddFeNodes(FeNode)
    \/ Retry(NewRetry(2, FromNat(100)))
    \/ NewDorisClient
    \/ \E r \in StreamReaders : Load(r)
    \/ \E in \in StreamAnswers : \E n \in 0..Len(StreamData) : Attempt(in, n)

SpecStream == Init /\ [][NextStream]_vars

\* The policies of SpecAnswers.
AnswerPolicies == { NewDefaultRetry, NewRetry(2, FromNat(100)) }

\* The retry loop under every answer of the transport.
NextAnswers ==
    \/ SetUser("root")
    \/ SetPassword("secret")
    \/ Database("db")
    \/ Table("tbl")
    \/ AddFeNodes(FeNodes)
    \/ \E retry \in AnswerPolicies : Retry(retry)
    \/ NewDorisClient
    \/ \E r \in Readers : Load(r)
    \/ \E in \in TransportAnswers : LoadAttempt(in)

SpecAnswers == Init /\ [][NextAnswers]_vars

\* The options given to AddOption: a load property, a label of the caller's
\* own under two spellings of the header's name, and an option that bears
\* the name of the authentication header.
Options ==
    { <<"format", "json">>, <<"label", "job_1">>, <<"Label", "job_2">>,
      <<"Authorization", "Basic Z3Vlc3Q6">> }

\* The answers the requests of SpecRequest get.
RequestAnswers == { ConnectionRefused, HttpResponse(200, "200 OK", SuccessBody) }

\* The requests a client makes under every batch mode, label prefix and set
\* of options, the retry policy being the default one.
NextRequest ==
    \/ SetUser("root")
    \/ SetPassword("secret")
    \/ Database("db")
    \/ Table("tbl")
    \/ AddFeNodes(FeNodes)
    \/ SetLabelPrefix("app")
    \/ \E mode \in {SYNC, ASYNC, OFF} : BatchMode(mode)
    \/ \E option \in Options : AddOption(option[1], option[2])
    \/ NewDorisClient
    \/ \E r \in Readers : Load(r)
    \/ \E in \in RequestAnswers : LoadAttempt(in)

SpecRequest == Init /\ [][NextRequest]_vars

\* The policies of SpecMutation, and what the builder methods make of the
\* LoadSetting s of a client afterwards.
MutationPolicies ==
    { NewRetry(1, FromNat(100)), NewRetry(-1, FromNat(100)), NilRetry }

LaterSettings(s) ==
    { [s EXCEPT !.user = ""],
      [s EXCEPT !.database = ""],
      [s EXCEPT !.parsedNodes = parseFeNodes("")],
      [s EXCEPT !.retry = NilRetry],
      [s EXCEPT !.retry = NewRetry(1, MinusOne64)] }

MutationAnswers == { ConnectionRefused, HttpResponse(200, "200 OK", SuccessBody) }

\* The node lists given to AddFeNodes after the client was made.
LaterNodes == { "", "http://fe3:8030", "http://fe2:8030,http://fe3:8030" }

\* A client made from a list of one or two nodes, whose LoadSetting is given
\* other lists between the Loads.
NextEndpoint ==
    \/ SetUser("root")
    \/ SetPassword("secret")
    \/ Database("db")
    \/ Table("tbl")
    \/ \E feNodes \in {FeNode, FeNodes} : AddFeNodes(feNodes)
    \/ Retry(NewRetry(1, FromNat(100)))
    \/ NewDorisClient
    \/ \E feNodes \in LaterNodes :
          Reconfigure([ls EXCEPT !.parsedNodes = parseFeNodes(feNodes)])
    \/ Load(Reader("1,Alice,25"))
    \/ \E in \in MutationAnswers : LoadAttempt(in)

SpecEndpoint == Init /\ [][NextEndpoint]_vars

\* The options given to AddOption and AddOptions in SpecOptions: a load
\* property, and the option BatchMode sets.
SingleOptions == { << "columns", "id,name" >>, << "group_commit", "sync_mode" >> }
OptionMaps == { [group_commit |-> "async_mode", columns |-> "id"] }

\* A LoadSetting and its clone under the methods that write the option map.
NextOptions ==
    \/ \E o \in DOMAIN settingsOf : \E mode \in {SYNC, ASYNC, OFF} :
          BatchModeOn(o, mode)
    \/ \E o \in DOMAIN settingsOf : \E option \in SingleOptions :
          AddOptionOn(o, option[1], option[2])
    \/ \E o \in DOMAIN settingsOf : \E options \in OptionMaps :
          AddOptionsOn(o, options)
    \/ \E o \in DOMAIN settingsOf : CsvFormatOn(o, ",", "\\n")
    \/ \E o \in DOMAIN settingsOf : \E format \in {JsonObjectLine, JsonArray} :
          JsonFormatOn(o, format)
    \/ CloneSetting

SpecOptions == Init /\ [][NextOptions]_vars

\* A client under the default batch mode or OFF, with a label of the caller's
\* among the options, whose caller takes the options and writes into the map
\* it was given.
NextMaps ==
    \/ SetUser("root")
    \/ SetPassword("secret")
    \/ Database("db")
    \/ Table("tbl")
    \/ AddFeNodes(FeNode)
    \/ Retry(NewRetry(1, FromNat(100)))
    \/ BatchMode(OFF)
    \/ AddOption("label", "job_1")
    \/ NewDorisClient
    \/ CallGetOptions
    \/ \E i \in DOMAIN copies.refs : \E option \in SingleOptions :
          WriteReturned(i, option[1], option[2])
    \/ Load(Reader("1,Alice,25"))
    \/ \E in \in MutationAnswers : LoadAttempt(in)

SpecMaps == Init /\ [][NextMaps]_vars

\* The counts the caller gives the policy of a client afterwards.
LaterCounts == { -1, 0, 2 }

\* A client whose retry policy the caller goes on changing through the
\* policy's setter, between the Loads and during them.
NextSetters ==
    \/ SetUser("root")
    \/ SetPassword("secret")
    \/ Database("db")
    \/ Table("tbl")
    \/ AddFeNodes(FeNode)
    \/ Retry(NewRetry(1, FromNat(100)))
    \/ NewDorisClient
    \/ \E n \in LaterCounts : RetrySetMaxRetryTimes(n)
    \/ Load(Reader("1,Alice,25"))
    \/ \E in \in MutationAnswers : LoadAttempt(in)

SpecSetters == Init /\ [][NextSetters]_vars

\* A client whose LoadSetting the caller goes on changing between the Loads.
NextMutation ==
    \/ SetUser("root")
    \/ SetPassword("secret")
    \/ Database("db")
    \/ Table("tbl")
    \/ AddFeNodes(FeNode)
    \/ \E retry \in MutationPolicies : Retry(retry)
    \/ NewDorisClient
    \/ \E next \in LaterSettings(ls) : Reconfigure(next)
    \/ Load(Reader("1,Alice,25"))
    \/ \E in \in MutationAnswers : LoadAttempt(in)

SpecMutation == Init /\ [][NextMutation]_vars

\* A LoadSetting and its clone under the methods of both.
NextClone ==
    \/ \E o \in DOMAIN settingsOf : CallBuilder(o)
    \/ \E o \in DOMAIN settingsOf :
          \E retry \in {NewRetry(0, FromNat(1000)), NilRetry} : RetryOn(o, retry)
    \/ \E o \in DOMAIN settingsOf : SetMaxRetryTimes(o, 3)
    \/ CloneSetting

SpecClone == Init /\ [][NextClone]_vars

\* The callers of GetLabel, interleaved with one another and with the clock.
NextLabels ==
    \/ \E g \in 1..MaxCallers : ReadClock(g)
    \/ \E g \in 1..MaxCallers : ReturnLabel(g)
    \/ Tick

SpecLabels == InitLabels /\ [][NextLabels]_vars

\* The callers of GetHttpClient, interleaved with one another.
NextOnce ==
    \E g \in 1..MaxCallers :
        \/ GetHttpClient(g)
        \/ OnceLock(g)
        \/ OnceCheck(g)
        \/ buildHttpClient(g)
        \/ OnceStore(g)
        \/ OnceUnlock(g)
        \/ ReturnClient(g)

SpecOnce == Init /\ [][NextOnce]_vars

\* The policies of SpecConcurrent, and the answers of the transport there: a
\* retryable failure, a failure that is not retryable, and a success.
ConcurrentPolicies == { NewRetry(2, FromNat(100)), NewRetry(0, FromNat(1000)), NilRetry }
ConcurrentAnswers ==
    { ConnectionRefused,
      HttpResponse(200, "200 OK", FilteredBody),
      HttpResponse(200, "200 OK", SuccessBody) }

\* The Load calls of the concurrent callers of one client, interleaved pass
\* by pass, the settings left alone once the client is made.
NextConcurrent ==
    \/ SetUser("root")
    \/ SetPassword("secret")
    \/ Database("db")
    \/ Table("tbl")
    \/ AddFeNodes(FeNode)
    \/ \E retry \in ConcurrentPolicies : Retry(retry)
    \/ NewDorisClient
    \/ \E g \in 1..MaxCallers : LoadBy(g, Reader("1,Alice,25"))
    \/ \E g \in 1..MaxCallers : \E in \in ConcurrentAnswers : AttemptBy(g, in)

SpecConcurrent == Init /\ [][NextConcurrent]_vars

\* The classifier on every pair of an error and an outcome.
NextClassifier ==
    \E err \in ClassifierErrors : \E resp \in ClassifierResponses :
        Classify(err, resp)

SpecClassifier == Init /\ [][NextClassifier]_vars

(***************************************************************************)
(* The retry loop                                                          *)
(***************************************************************************)
\* The last attempt of the current Load ended in a Success outcome.
LastAttemptSucceeded ==
    /\ Len(labels) > 0
    /\ lastErr.isNil /\ ~response.isNil /\ response.Status = SUCCESS

\* The last attempt of the current Load ended in a failure of the given kind.
LastAttemptFailed(retryable) ==
    /\ Len(labels) > 0
    /\ ~LastAttemptSucceeded
    /\ isRetryableError(lastErr, response) = retryable

\* backoff(1), ..., backoff(m) for the base interval b.
BackoffSchedule(m, b) == [n \in 1..m |-> backoffInterval(n, b)]

\* C1: when every attempt of a Load ends in a retryable failure, the Load
\* makes exactly maxRetries + 1 attempts, sleeps backoff(1), ...,
\* backoff(maxRetries) in that order between them, and returns the last
\* failure; under the policy (2, 100) these are 3 attempts and sleeps of
\* 100 ms and 200 ms.  While the loop runs after n retryable failures it has
\* made n attempts and slept backoff(1), ..., backoff(n - 1).
C1_AllRetryableExhaustsBudget ==
    /\ pc = "loading" /\ attempt > 0 =>
          /\ LastAttemptFailed(TRUE)
          /\ attempt <= maxRetries
          /\ Len(labels) = attempt
          /\ sleeps = BackoffSchedule(attempt - 1, baseIntervalMs)
    /\ ret.done /\ LastAttemptFailed(TRUE) =>
          /\ ret.via = "exhausted"
          /\ pc = "idle"
          /\ Len(labels) = maxRetries + 1
          /\ sleeps = BackoffSchedule(maxRetries, baseIntervalMs)
          /\ ~ret.err.isNil
          /\ ret.response = response
    /\ ret.done /\ LastAttemptFailed(TRUE)
          /\ maxRetries = 2 /\ baseIntervalMs = FromNat(100) =>
          /\ Len(labels) = 3
          /\ sleeps = << Millis(100), Millis(200) >>

\* A Load under the policy (2, 100) has returned after three retryable failures.
C1_Witness ==
    /\ ret.done /\ ret.via = "exhausted"
    /\ maxRetries = 2 /\ baseIntervalMs = FromNat(100)
    /\ Len(labels) = 3 /\ Len(sleeps) = 2

\* C2: as soon as an attempt yields a Success outcome the Load has returned
\* it, with a nil error, whatever budget remains: the attempts made are the
\* retries before it and itself, the sleeps those before the retries, and
\* nothing follows; a success of the first attempt means one attempt.  The
\* body {"Status":"Success","NumberLoadedRows":100} is such an outcome, with
\* 100 rows loaded.
C2_SuccessReturnsAtOnce ==
    /\ LastAttemptSucceeded =>
          /\ pc = "idle"
          /\ ret.done /\ ret.via = "success"
          /\ ret.err.isNil
          /\ ret.response = response
          /\ attempt <= maxRetries
          /\ Len(labels) = attempt + 1
          /\ Len(sleeps) = attempt
    /\ answer = HttpResponse(200, "200 OK", SuccessBody) =>
          /\ LastAttemptSucceeded
          /\ ret.response.Resp.NumberLoadedRows = 100

\* A Load has returned the success of its first retry, four retries unused.
C2_Witness ==
    /\ LastAttemptSucceeded
    /\ ret.done /\ ret.via = "success"
    /\ attempt = 1 /\ maxRetries = 5

\* C3: as soon as an attempt ends in a failure the classifier does not mark
\* retryable, the Load has returned: no attempt and no sleep follow, and what
\* is returned is that attempt's error, or its Failure outcome with an error
\* for it.  The body {"Status":"Fail","Message":"too many filtered rows"} is
\* such a failure: the Load returns at the attempt that received it.
C3_NonRetryableReturnsAtOnce ==
    /\ LastAttemptFailed(FALSE) =>
          /\ pc = "idle"
          /\ ret.done /\ ret.via = "non_retryable"
          /\ ret.response = response
          /\ ~ret.err.isNil
          /\ ~lastErr.isNil => ret.err = lastErr
          /\ lastErr.isNil => ret.response.Status = FAILURE
          /\ attempt <= maxRetries
          /\ Len(labels) = attempt + 1
          /\ Len(sleeps) = attempt
    /\ answer = HttpResponse(200, "200 OK", FilteredBody) =>
          /\ LastAttemptFailed(FALSE)
          /\ ret.response.Resp.Message = "too many filtered rows"

\* A Load has returned the Failure of its first attempt, five retries unused.
C3_Witness ==
    /\ answer = HttpResponse(200, "200 OK", FilteredBody)
    /\ ret.done /\ ret.via = "non_retryable"
    /\ Len(labels) = 1 /\ maxRetries = 5

(***************************************************************************)
(* The backoff schedule                                                    *)
(***************************************************************************)
\* min(b * 2^(n-1), 16000) over the unbounded integers, in milliseconds, for
\* the int64 base interval b >= 0 and the retry n >= 1.
IdealDelayMs(n, b) ==
    IF b = Zero64 THEN 0
    ELSE IF ~IsSmall(b) \/ ToNat(b) >= maxIntervalMs \/ n > 15 THEN maxIntervalMs
    ELSE Min(ToNat(b) * Pow(2, n - 1), maxIntervalMs)

\* C4: under every policy validation accepts, the sleep before retry n is
\* min(b * 2^(n-1), 16000) ms as computed over the unbounded integers (so it is
\* never negative, never above 16000 ms and never below an earlier sleep),
\* also where the 64-bit product wraps.
C4_DelayIsCappedDoubling ==
    \A n \in 1..Len(sleeps) :
        sleeps[n] = Millis(IdealDelayMs(n, baseIntervalMs))

RECURSIVE SumSeq(_)
SumSeq(q) == IF q = << >> THEN 0 ELSE q[1] + SumSeq(Tail(q))

\* The schedules of the policies (5, 1000) and (3, 5000), in milliseconds and
\* as the time.Duration values of these.
DefaultScheduleMs == << 1000, 2000, 4000, 8000, 16000 >>
DefaultSchedule   == [n \in 1..Len(DefaultScheduleMs) |-> Millis(DefaultScheduleMs[n])]
SlowScheduleMs    == << 5000, 10000, 16000 >>
SlowSchedule      == [n \in 1..Len(SlowScheduleMs) |-> Millis(SlowScheduleMs[n])]

\* The sleeps of a Load so far are the first ones of the schedule.
SleepsFollow(schedule) ==
    /\ Len(sleeps) <= Len(schedule)
    /\ sleeps = SubSeq(schedule, 1, Len(sleeps))

\* C5: under the policy (5, 1000), which is the default one, the sleeps of a
\* Load are 1000, 2000, 4000, 8000, 16000 ms, 31 s in all when the budget is
\* used up; under the policy (3, 5000) they are 5000, 10000, 16000 ms.
C5_BackoffSchedules ==
    /\ NewDefaultRetry = NewRetry(5, FromNat(1000))
    /\ loads > 0 /\ ls.retry = NewRetry(5, FromNat(1000)) =>
          /\ SleepsFollow(DefaultSchedule)
          /\ ret.via = "exhausted" =>
                /\ sleeps = DefaultSchedule
                /\ SumSeq(DefaultScheduleMs) = 31000
    /\ loads > 0 /\ ls.retry = NewRetry(3, FromNat(5000)) =>
          /\ SleepsFollow(SlowSchedule)
          /\ ret.via = "exhausted" => sleeps = SlowSchedule

\* A Load under the default policy has used up its five retries.
C5_Witness ==
    /\ ls.retry = NewDefaultRetry
    /\ ret.done /\ ret.via = "exhausted"
    /\ Len(sleeps) = 5
    /\ sleeps[5] = Millis(16000)

(***************************************************************************)
(* Labels                                                                  *)
(***************************************************************************)
\* The label header of the last request, "" when it has none.
SentLabel ==
    IF lastReq.sent /\ "Label" \in DOMAIN lastReq.header
    THEN lastReq.header["Label"]
    ELSE ""

C20_LabelsAreDistinct ==
    /\ \A i, j \in DOMAIN issued : i # j => issued[i].label # issued[j].label
    /\ \A i \in DOMAIN issued :
          /\ issued[i].label =
                 ls.labelPrefix \o "_" \o ls.database \o "_" \o ls.table \o "_"
                     \o ToString(issued[i].millis) \o "_" \o issued[i].id
          /\ issued[i].millis <= now

\* Two callers that read the clock in the same millisecond have their
\* labels, while a third call is under way.
C20_Witness ==
    /\ Len(issued) = 2
    /\ issued[1].millis = issued[2].millis
    /\ issued[1].label # issued[2].label
    /\ Timed # {}
    /\ ls.labelPrefix = "app"

(***************************************************************************)
(* The classification of failures                                          *)
(***************************************************************************)
\* The transport answered the last request with a status other than 200 OK.
NonOKAnswer == answer.kind = "response" /\ answer.StatusCode # StatusOK

\* C8: a response whose status is not a success status makes the attempt end
\* in an error, with no outcome, that carries the status line, and the Load
\* retries that error while retries remain: it returns it only once the
\* budget is used up.
C8_ErrorStatusAlwaysRetried ==
    NonOKAnswer =>
        /\ response.isNil /\ ~lastErr.isNil
        /\ Contains(lastErr.msg, answer.Status)
        /\ ret.done => ret.via = "exhausted"

\* The transport answered the last request 200 OK with a body that is no
\* document of the protocol.
MalformedAnswer ==
    /\ answer.kind = "response" /\ answer.StatusCode = StatusOK
    /\ answer.readErr.isNil
    /\ answer.body \in MalformedBodies

\* C9: a body that fails to parse is never retried, whatever its text (the
\* empty body, a body with "timeout" or "EOF" in it): the Load returns the
\* parse error at that attempt.
C9_ParseErrorNeverRetried ==
    MalformedAnswer =>
        /\ pc = "idle"
        /\ ret.done /\ ret.via = "non_retryable"
        /\ ret.err = lastErr /\ lastErr.cause = "malformed_body"
        /\ Len(labels) = attempt + 1

\* The causes of errors that are transient: connection refused, reset or
\* aborted, a timeout (also as the transport's flag), a DNS failure, an
\* unreachable network, the end of the input, a broken pipe.
TransientCauses ==
    { "connection_refused", "connection_reset", "connection_aborted",
      "timeout", "dns_failure", "network_unreachable", "end_of_input",
      "broken_pipe" }

\* C10: an error is classified retryable exactly if it is of a transient
\* category: one of TransientCauses, or an HTTP status 301, 302 or 307.  The
\* other errors (malformed data, a rejected authentication, a request that
\* could not be made) are not retryable.
C10_RetryableIffTransient ==
    ~lastErr.isNil =>
        ( isRetryableError(lastErr, response)
            <=> \/ lastErr.cause \in TransientCauses
                \/ /\ lastErr.cause = "http_status"
                   /\ answer.StatusCode \in {301, 302, 307} )

\* The last attempt ended, without an error, in a Failure outcome.
FailureOutcome ==
    /\ Len(labels) > 0
    /\ lastErr.isNil /\ ~response.isNil /\ response.Status = FAILURE

\* The text holds, in whatever case, one of the words that mark a Failure
\* outcome as transient.
MentionsTransient(text) ==
    \E word \in {"connect", "unavailable", "timeout", "redirect"} :
        Contains(ToLower(text), word)

\* The loop took the last attempt's failure for a retryable one: it goes on,
\* or it stopped only because the budget was used up.
ClassifiedRetryable ==
    \/ pc = "loading" /\ Len(labels) > 0
    \/ ret.done /\ ret.via = "exhausted"

\* C11: an attempt that ends without an error in a Failure outcome is taken
\* for retryable exactly if the outcome's message holds, in whatever case,
\* one of "connect", "unavailable", "timeout", "redirect"; a Failure outcome
\* whose server message holds none of them is never retried.
C11_FailureRetriedIffMessageMatches ==
    FailureOutcome =>
        /\ ClassifiedRetryable <=> MentionsTransient(response.ErrorMessage)
        /\ ~MentionsTransient(response.Resp.Message) => ~ClassifiedRetryable

\* C12: the classifier consults one input: given an error, its answer is
\* decided by the error alone, the same whatever outcome comes with it; the
\* outcome's message counts only when there is no error.
C12_OneInputDecides ==
    [][ /\ shouldRetry.set /\ shouldRetry'.set
        /\ ~lastErr.isNil /\ lastErr' = lastErr
        => shouldRetry'.value = shouldRetry.value ]_vars

\* An error that is not retryable has been classified so, although it came
\* with a Failure outcome whose message alone would be retried.
C12_Witness ==
    /\ shouldRetry.set /\ ~shouldRetry.value
    /\ ~lastErr.isNil
    /\ ~response.isNil /\ response.Status = FAILURE
    /\ MentionsTransient(response.ErrorMessage)

(***************************************************************************)
(* The interpretation of the response                                      *)
(***************************************************************************)
\* The transport answered the last request 200 OK with a document of the
\* protocol as the body.
ParseableAnswer ==
    /\ answer.kind = "response" /\ answer.StatusCode = StatusOK
    /\ answer.readErr.isNil
    /\ answer.body \in DocumentBodies

\* C13: for a 200 OK response with a parseable body the attempt ends without
\* an error in an outcome that carries the parsed fields unchanged; the
\* outcome is Success exactly if the parsed Status is "success" in whatever
\* case ("Success", "SUCCESS"), and Failure for every other Status ("Fail",
\* "Publish Timeout", the empty one).  A Success is what the Load returns.
C13_SuccessIffStatusIsSuccess ==
    ParseableAnswer =>
        LET parsed == Unmarshal(answer.body).value
        IN  /\ lastErr.isNil /\ ~response.isNil
            /\ response.Resp = parsed
            /\ response.Status \in {SUCCESS, FAILURE}
            /\ response.Status = SUCCESS <=> ToLower(parsed.Status) = "success"
            /\ parsed.Status \in {"Success", "SUCCESS"} =>
                  /\ response.Status = SUCCESS
                  /\ ret.done /\ ret.response.Resp = parsed
            /\ parsed.Status \in {"", "Fail", "Publish Timeout"} =>
                  response.Status = FAILURE

\* A 200 OK response with the Status "SUCCESS" and 3 rows loaded has been
\* returned as a Success outcome.
C13_Witness ==
    /\ answer = HttpResponse(200, "200 OK", UpperCaseBody)
    /\ ret.done /\ ret.response.Status = SUCCESS
    /\ ret.response.Resp.Status = "SUCCESS"
    /\ ret.response.Resp.NumberLoadedRows = 3

(***************************************************************************)
(* The result of a Load that fails                                         *)
(***************************************************************************)
\* C14: a Load that ends in failure after several attempts returns the error
\* and the outcome of its last attempt only: the error of the last attempt as
\* it is (no outcome with it), or the Failure outcome of the last attempt
\* with an error that names its status; what the transport answered to the
\* last request decides both.
C14_LastAttemptIsReturned ==
    ret.done /\ ret.via \in {"exhausted", "non_retryable"} /\ Len(labels) > 1 =>
        /\ ret.response = response
        /\ ~lastErr.isNil =>
              /\ ret.err = lastErr
              /\ ret.response.isNil
        /\ lastErr.isNil =>
              /\ ret.response.Status = FAILURE
              /\ ret.err = NewError("load failed with status: FAILURE", "load_failed")
        /\ answer.kind = "error" =>
              /\ ret.err.cause = answer.err.cause
              /\ Contains(ret.err.msg, answer.err.msg)
        /\ NonOKAnswer => ret.err.msg = "stream load error: " \o answer.Status
        /\ ParseableAnswer =>
              /\ ret.response.Resp = Unmarshal(answer.body).value
              /\ ret.err.cause = "load_failed"

\* A Load whose first attempt was refused a connection has returned the
\* Failure outcome of its second attempt, with no error of the transport.
C14_Witness ==
    /\ ret.done /\ ret.via = "non_retryable"
    /\ Len(labels) = 2
    /\ answer = HttpResponse(200, "200 OK", FilteredBody)
    /\ ret.response.Resp.Message = "too many filtered rows"
    /\ ret.err.cause = "load_failed"

(***************************************************************************)
(* Validation and construction                                             *)
(***************************************************************************)
\* The user, the password, the database, the table and the endpoint list of
\* the LoadSetting s are all non-empty.
RequiredFieldsSet(s) ==
    /\ s.user # "" /\ s.password # "" /\ s.database # "" /\ s.table # ""
    /\ Len(s.parsedNodes) > 0

\* The LoadSetting s has a retry policy, one of whose fields is negative.
NegativeRetryField(s) ==
    /\ ~s.retry.isNil
    /\ s.retry.maxRetryTimes < 0 \/ IsNegative(s.retry.retryIntervalMs)

\* C15: for every LoadSetting the builder methods lead to, the nil retry
\* policy included, validation succeeds exactly if the five required fields
\* are non-empty and the two fields of the retry policy are there and
\* non-negative.
C15_ValidIffFieldsValid ==
    validate(ls) = ""
        <=> /\ RequiredFieldsSet(ls)
            /\ ~ls.retry.isNil
            /\ ~NegativeRetryField(ls)

\* C16: the constructor fails closed.  Called on a LoadSetting that does not
\* pass validation it returns an error and no client: no endpoint is chosen,
\* no label drawn, nothing sent.  Called on one that passes it returns, with
\* no error, a client whose loader targets one of the configured endpoints
\* and on which Load can be called; it sends nothing itself.
C16_ConstructorFailsClosed ==
    [][ newErr' # newErr \/ client' # client =>
          IF RequiredFieldsSet(ls) /\ ~NegativeRetryField(ls)
          THEN /\ newErr' = ""
               /\ ~client'.isNil
               /\ \E i \in 1..Len(ls.parsedNodes) :
                      client'.loadURL =
                          "http://" \o ls.parsedNodes[i] \o "/api/" \o ls.database
                              \o "/" \o ls.table \o "/_stream_load"
               /\ pc' = "idle"
               /\ ~lastReq'.sent /\ uuidSeq' = 0 /\ loads' = 0
          ELSE /\ newErr' # ""
               /\ SubSeq(newErr', 1, 23) = "invalid load settings: "
               /\ client' = NilClient
               /\ pc' = "config"
               /\ ~lastReq'.sent /\ uuidSeq' = 0 /\ loads' = 0
      ]_vars

\* The constructor has turned down a LoadSetting that lacks only the
\* endpoints.
C16_Witness ==
    /\ newErr = "invalid load settings: feNodes cannot be empty, "
                    \o "please call AddFeNodes() first"
    /\ client.isNil /\ pc = "config"
    /\ ls.user # "" /\ ls.password # "" /\ ls.database # "" /\ ls.table # ""
    /\ Len(ls.parsedNodes) = 0

\* C17: no request is sent while the LoadSetting the client holds has an
\* empty user, password, database, table or endpoint list, or a negative
\* retry field, also when the LoadSetting is changed after the client was
\* made from it.
C17_NoRequestWhileInvalid ==
    [][ lastReq'.sent /\ lastReq' # lastReq =>
          RequiredFieldsSet(ls') /\ ~NegativeRetryField(ls') ]_vars

\* C18: every Load ends by returning to its caller: the process neither
\* panics nor exits, whatever LoadSetting the constructor accepted and
\* whatever became of it later, and a Load that returns without a Success
\* outcome returns an error.
C18_LoadAlwaysReturns ==
    /\ pc \notin {"panic", "exit"}
    /\ ret.done =>
          \/ ~ret.err.isNil
          \/ ~ret.response.isNil /\ ret.response.Status = SUCCESS

(***************************************************************************)
(* Clone                                                                   *)
(***************************************************************************)
\* What the getters of the LoadSetting o answer, in the state with the
\* LoadSettings objects and the Retry objects heap: its fields, and behind
\* GetRetry the fields of its Retry object.
ObservableIn(objects, heap, o) ==
    [objects[o] EXCEPT !.retry = IF @ = 0 THEN NilRetry ELSE heap[@]]

\* C19: after c = s.Clone() no method called on c (options, endpoints,
\* credentials, format, batch mode, label prefix, the retry policy and the
\* setters of the Retry behind GetRetry) changes what the getters of s
\* answer, and no method called on s changes what those of c answer.
C19_CloneIsIndependent ==
    [][ "c" \in DOMAIN settingsOf =>
          /\ lastOp' = "c" =>
                ObservableIn(settingsOf', retries', "s")
                    = ObservableIn(settingsOf, retries, "s")
          /\ lastOp' = "s" =>
                ObservableIn(settingsOf', retries', "c")
                    = ObservableIn(settingsOf, retries, "c") ]_vars

(***************************************************************************)
(* The request                                                             *)
(***************************************************************************)
\* C7: with the batch mode SYNC or ASYNC no request has a label header,
\* whatever the other options are (header names do not tell the cases of
\* their letters apart).
C7_NoLabelUnderGroupCommit ==
    lastReq.sent /\ ls.batchMode \in {SYNC, ASYNC} =>
        \A key \in DOMAIN lastReq.header : ~EqualFold(key, "label")

(***************************************************************************)
(* The pair a Load returns                                                 *)
(***************************************************************************)
\* The last attempt ended in an error of the transport or of the parsing of
\* the body.
TransportOrParseError ==
    \/ answer.kind = "error"
    \/ NonOKAnswer
    \/ MalformedAnswer
    \/ answer.kind = "response" /\ ~answer.readErr.isNil

FailsUnsent(loadURL, body, text) ==
    \A in \in {ConnectionRefused, HttpResponse(200, "200 OK", SuccessBody)} :
        LET r == StreamLoaderLoad(ls, loadURL, "label", body, in)
        IN  /\ ~r.sent
            /\ r.response.isNil
            /\ r.err.msg = "failed to create request: " \o text
            /\ loopDecision(r.err, r.response, 0, maxRetries) = "non_retryable"

\* C25: the construction of the request fails with an error when the URL is
\* empty or the body is a nil reader; no request is sent then, the attempt
\* ends in that error, and the Load returns it at once, without a retry and
\* without a sleep.
C25_UnbuiltRequestEndsLoad ==
    /\ FailsUnsent("", Reader("1,Alice,25"), "url cannot be empty")
    /\ FailsUnsent("", NilReader, "url cannot be empty")
    /\ \A loadURL \in LoadURLs :
          FailsUnsent(loadURL, NilReader, "request body cannot be nil")
    /\ reader.isNil /\ Len(labels) > 0 =>
          /\ ~lastReq.sent /\ answer = NoAnswer
          /\ ~lastErr.isNil /\ lastErr.cause = "request_construction"
          /\ lastErr.msg = "failed to create request: request body cannot be nil"
          /\ pc = "idle" /\ ret.done /\ ret.via = "non_retryable"
          /\ ret.err = lastErr /\ ret.response.isNil
          /\ Len(labels) = 1 /\ sleeps = << >>

\* A Load given a nil reader under a policy of five retries has returned the
\* builder's error after one attempt that sent nothing.
C25_Witness ==
    /\ reader.isNil /\ maxRetries = 5
    /\ ret.done /\ Len(labels) = 1
    /\ ~lastReq.sent
    /\ ret.err.msg = "failed to create request: request body cannot be nil"

(***************************************************************************)
(* The order of the sleeps and the attempts                                *)
(***************************************************************************)
\* C28: within a Load the step that makes attempt 0 sleeps nothing; the step
\* that makes the retry n >= 1 is taken only after attempt n - 1 ended in a
\* failure classified retryable, and sleeps backoff(n) once before it sends;
\* no other step sleeps, so nothing is slept after the attempt that ends the
\* Load, and the sleeps are one fewer than the attempts.
C28_OneSleepBeforeEachRetry ==
    [][ /\ Len(labels') = Len(labels) + 1 =>
              /\ pc = "loading"
              /\ Len(labels) = attempt
              /\ attempt = 0 => sleeps = << >> /\ sleeps' = << >>
              /\ attempt >= 1 =>
                    /\ LastAttemptFailed(TRUE)
                    /\ sleeps' = Append(sleeps, backoffInterval(attempt, baseIntervalMs))
              /\ Len(sleeps') = Len(labels') - 1
        /\ Len(labels') # Len(labels) + 1 =>
              \/ sleeps' = sleeps
              \/ sleeps' = << >> /\ labels' = << >> /\ pc = "idle"
      ]_vars

\* A Load under the policy (2, 100) has ended at its third attempt, the
\* second retry, after sleeps of 100 ms and 200 ms.
C28_Witness ==
    /\ ret.done /\ pc = "idle"
    /\ Len(labels) = 3
    /\ sleeps = << Millis(100), Millis(200) >>
    /\ LastAttemptSucceeded

(***************************************************************************)
(* Termination                                                             *)
(***************************************************************************)
\* The terminal states of a Load.
TerminalStates == {"success", "non_retryable", "exhausted"}

\* A Load was called and has not returned.
LoadPending == loads > 0 /\ ~ret.done

\* C27: under every policy the constructor accepts and every sequence of
\* answers, each attempt coming to its end, a Load that was called comes to
\* return in one of the terminal states Success, NonRetryable, Exhausted.
C27_LoadTerminates ==
    /\ [](ret.done => ret.via \in TerminalStates)
    /\ LoadPending ~> (ret.done /\ ret.via \in TerminalStates)

(***************************************************************************)
(* The list of nodes                                                       *)
(***************************************************************************)
\* The host:port entries of each input of SpecNodes, item by item.
EntriesOf(feNodes) ==
    CASE feNodes = "" -> << >>
      [] feNodes = "http://fe1:8030" -> << "fe1:8030" >>
      [] feNodes = "http://fe1:8030,http://fe2:8030" -> << "fe1:8030", "fe2:8030" >>
      [] feNodes = "http://fe2:8030,http://fe1:8030" -> << "fe2:8030", "fe1:8030" >>
      [] feNodes = "http://fe3:8030" -> << "fe3:8030" >>

C23_AuthAndExpectAlwaysSent ==
    lastReq.sent =>
        /\ "Authorization" \in DOMAIN lastReq.header
        /\ lastReq.header["Authorization"]
              = "Basic " \o Base64(ls.user \o ":" \o ls.password)
        /\ "Expect" \in DOMAIN lastReq.header
        /\ lastReq.header["Expect"] = "100-continue"
        /\ \A key \in DOMAIN ls.settings :
              \E name \in DOMAIN lastReq.header :
                  /\ EqualFold(name, key)
                  /\ lastReq.header[name] = ls.settings[key]

\* C24: with the batch mode OFF every request that goes out carries a label
\* header whose value is the label generated for that request, whatever the
\* other options are.
C24_GeneratedLabelSentWhenOff ==
    lastReq.sent /\ ls.batchMode = OFF =>
        /\ "Label" \in DOMAIN lastReq.header
        /\ lastReq.header["Label"] = lastReq.label
        /\ lastReq.label = labels[Len(labels)]

(***************************************************************************)
(* The stream over the attempts                                            *)
(***************************************************************************)
\* The data left of a stream after its first n bytes were read.
Unread(data, n) == SubSeq(data, n + 1, Len(data))

\* C29: every attempt of a Load gets the same reader, never rewound nor made
\* anew, whether it is a string or bytes reader or a file: the first request
\* has the whole data to send, and each retry exactly the bytes the attempts
\* before it left unread -- nothing after an attempt that read the whole
\* stream, the full data after attempts that read nothing.
C29_RetrySendsWhatIsLeft ==
    /\ Len(bodies) > 0 => bodies[1].offered = StreamData
    /\ \A k \in 1..(Len(bodies) - 1) :
          /\ bodies[k + 1].offered = Unread(bodies[k].offered, bodies[k].read)
          /\ bodies[k].read = Len(bodies[k].offered) => bodies[k + 1].offered = ""
          /\ (\A j \in 1..k : bodies[j].read = 0) =>
                bodies[k + 1].offered = StreamData

(***************************************************************************)
(* The shared transport client                                             *)
(***************************************************************************)
\* C22: whatever the interleaving of the callers of GetHttpClient, the first
\* ones concurrent, buildHttpClient runs once at most, and every call, then
\* and later, returns the one instance it built, never nil and never before
\* it is complete.
C22_ClientBuiltOnce ==
    /\ builds <= 1
    /\ \A g \in DOMAIN getters :
          /\ \A i \in DOMAIN getters[g].got :
                /\ getters[g].got[i] # 0
                /\ getters[g].got[i] = 1
                /\ httpClient = 1 /\ builds = 1 /\ once.done = 1
          /\ getters[g].pc = "return" => httpClient = 1 /\ builds = 1

\* Two callers entered GetHttpClient before the client was built, and both
\* found the flag unset: the first has built the client and has returned it
\* from two calls, the second has found the flag set under the mutex.
C22_Witness ==
    /\ builds = 1
    /\ getters[1].got = << 1, 1 >>
    /\ getters[2].got = << >>
    /\ getters[2].pc = "unlock"

(***************************************************************************)
(* Concurrent Load calls                                                   *)
(***************************************************************************)
\* C21: whatever the interleaving of the Load calls of the callers of one
\* client, the settings left alone, what a call has done is decided by the
\* answers to its own requests and the policy: it has made one attempt for
\* each of its answers, every answer but the last a retryable failure, it
\* has slept backoff(1), backoff(2), ... once between its own attempts, and it
\* has returned exactly if its last answer is a success, a failure that is
\* not retryable, or the retryable failure that uses up the budget; the
\* retries and sleeps of the other callers add and remove nothing.
C21_CallsAreIndependent ==
    \A g \in DOMAIN calls :
        LET f == calls[g]
            n == Len(f.answers)
        IN  /\ f.pc = "idle" => n = 0 /\ f.sleeps = << >> /\ ~f.ret.done
            /\ f.pc # "idle" =>
                  /\ f.maxRetries = ls.retry.maxRetryTimes
                  /\ f.baseIntervalMs = ls.retry.retryIntervalMs
                  /\ n <= f.maxRetries + 1
                  /\ \A i \in 1..(n - 1) : f.answers[i] = ConnectionRefused
                  /\ f.sleeps = BackoffSchedule(IF n = 0 THEN 0 ELSE n - 1,
                                                f.baseIntervalMs)
            /\ f.pc = "loading" =>
                  /\ f.attempt = n /\ n <= f.maxRetries
                  /\ n > 0 => f.answers[n] = ConnectionRefused
                  /\ ~f.ret.done
            /\ f.pc = "done" =>
                  /\ n > 0 /\ f.attempt = n - 1 /\ f.ret.done
                  /\ f.answers[n] = HttpResponse(200, "200 OK", SuccessBody) =>
                        /\ f.ret.via = "success" /\ f.ret.err.isNil
                        /\ f.ret.response.Status = SUCCESS
                  /\ f.answers[n] = HttpResponse(200, "200 OK", FilteredBody) =>
                        /\ f.ret.via = "non_retryable"
                        /\ f.ret.response.Resp.Message = "too many filtered rows"
                  /\ f.answers[n] = ConnectionRefused =>
                        /\ f.ret.via = "exhausted" /\ n = f.maxRetries + 1
                        /\ f.ret.err.cause = "connection_refused"

\* Of two callers of one client under the policy (2, 100), the first has used
\* up its budget in three attempts, with sleeps of 100 ms and 200 ms, and the
\* second, called meanwhile, has succeeded at once without a sleep.
C21_Witness ==
    /\ calls[1].pc = "done" /\ calls[1].ret.via = "exhausted"
    /\ Len(calls[1].answers) = 3
    /\ calls[1].sleeps = << Millis(100), Millis(200) >>
    /\ calls[2].pc = "done" /\ calls[2].ret.via = "success"
    /\ Len(calls[2].answers) = 1 /\ calls[2].sleeps = << >>

(***************************************************************************)
(* The number of attempts of a Load                                        *)
(***************************************************************************)
\* C31: every Load of a client makes at least one attempt and at most
\* maxRetries + 1 attempts, maxRetries being the count read when the call
\* started, also when the count of the policy is set anew, to a negative
\* number too, after the client was made or while a Load is under way.
C31_AttemptsWithinBudget ==
    /\ pc = "loading" => Len(labels) <= maxRetries
    /\ ret.done => /\ 1 <= Len(labels)
                   /\ Len(labels) <= maxRetries + 1

(***************************************************************************)
(* The endpoint of a client                                                *)
(***************************************************************************)
\* C32: every request of a client goes to one endpoint: the load URL is made
\* when the client is made, from a member of the endpoint list of that
\* moment; no step changes it afterwards, neither a retry nor a later change
\* of the endpoint list of the LoadSetting; and every request sent has it as
\* its URL.
C32_OneEndpointPerClient ==
    [][ /\ client.isNil /\ ~client'.isNil =>
              \E i \in DOMAIN ls.parsedNodes :
                  client'.loadURL =
                      LoadURL(ls.parsedNodes[i], ls.database, ls.table)
        /\ ~client.isNil => client' = client
        /\ lastReq'.sent /\ lastReq' # lastReq =>
              lastReq'.url = client.loadURL ]_vars

\* A client made from the list fe1, fe2 with fe2 as its endpoint has sent the
\* retry of its second Load to fe2, the list of its LoadSetting being fe3
\* alone by then.
C32_Witness ==
    /\ ~client.isNil
    /\ client.loadURL = LoadURL("fe2:8030", "db", "tbl")
    /\ ls.parsedNodes = << "fe3:8030" >>
    /\ loads = 2 /\ Len(labels) = 2
    /\ lastReq.sent /\ lastReq.url = LoadURL("fe2:8030", "db", "tbl")

(***************************************************************************)
(* The option map of a LoadSetting                                         *)
(***************************************************************************)
\* C33: a new LoadSetting has the batch mode ASYNC and the option
\* group_commit = async_mode, and after any sequence of BatchMode, AddOption,
\* AddOptions, CsvFormat, JsonFormat and Clone calls the option map of a
\* LoadSetting has the key group_commit exactly if its batch mode is not OFF,
\* with sync_mode under SYNC and async_mode under ASYNC.
C33_GroupCommitFollowsMode ==
    /\ NewLoadSetting.batchMode = ASYNC
    /\ NewLoadSetting.settings = [group_commit |-> "async_mode"]
    /\ \A o \in DOMAIN settingsOf :
          LET s == settingsOf[o]
          IN  /\ "group_commit" \in DOMAIN s.settings <=> s.batchMode # OFF
              /\ s.batchMode = SYNC => s.settings["group_commit"] = "sync_mode"
              /\ s.batchMode = ASYNC => s.settings["group_commit"] = "async_mode"

\* C34: no request sent has both a label header and a group_commit header,
\* the names compared without regard to the case of their letters, under
\* every batch mode and whatever the keys of the caller's options are.
C34_LabelOrGroupCommit ==
    lastReq.sent =>
        ~ /\ \E key \in DOMAIN lastReq.header : EqualFold(key, "label")
          /\ \E key \in DOMAIN lastReq.header : EqualFold(key, "group_commit")

(***************************************************************************)
(* The options of the format                                               *)
(***************************************************************************)
\* The header maps of a request made for the LoadSetting s.
HeadersFor(s) ==
    RequestHeaders(createRequest(s, LoadURL("fe1:8030", "db", "tbl"),
                                 "label_1", Reader("1,Alice,25")).headers)

\* C35: after any sequence of CsvFormat and JsonFormat calls the headers of
\* a request describe the format selected last and no other: under csv there
\* is neither strip_outer_array nor read_json_by_line, under json neither
\* column_separator nor line_delimiter, and under the JSON array (json with
\* strip_outer_array = true) no read_json_by_line.
C35_OnlyLastFormat ==
    \A o \in DOMAIN settingsOf :
    \A header \in HeadersFor(settingsOf[o]) :
        LET has(key) == key \in DOMAIN header
        IN  /\ has("Format") /\ header["Format"] = "csv" =>
                  ~has("Strip_outer_array") /\ ~has("Read_json_by_line")
            /\ has("Format") /\ header["Format"] = "json" =>
                  ~has("Column_separator") /\ ~has("Line_delimiter")
            /\ /\ has("Format") /\ header["Format"] = "json"
               /\ has("Strip_outer_array") /\ header["Strip_outer_array"] = "true"
               => ~has("Read_json_by_line")

(***************************************************************************)
(* The error message of a Failure                                          *)
(***************************************************************************)
\* C37: the error message of a Failure outcome is made of the message field
\* of the server's answer and of its error URL when the message field is not
\* empty, and is the text of the response body as it came otherwise; so it
\* is never empty, and the outcome carries the parsed fields of the answer.
C37_FailureMessage ==
    ~response.isNil /\ response.Status = FAILURE =>
        /\ answer.kind = "response" /\ answer.body \in DocumentBodies
        /\ LET parsed == Unmarshal(answer.body).value
               text   == response.ErrorMessage
           IN  /\ response.Resp = parsed
               /\ parsed.Message # "" =>
                     /\ Contains(text, parsed.Message)
                     /\ Contains(text, parsed.ErrorURL)
               /\ parsed.Message = "" => text = answer.body
               /\ text # ""

\* The Failure outcome of an answer with the message "too many filtered
\* rows" and an error URL names both in its error message.
C37_Witness ==
    /\ answer = HttpResponse(200, "200 OK", ErrorURLBody)
    /\ ~response.isNil /\ response.Status = FAILURE
    /\ response.Resp.ErrorURL = "http://connect-be1:8040/api/_load_error_log"
    /\ response.ErrorMessage =
          "load failed. cause by: too many filtered rows, please check more "
              \o "detail from url: http://connect-be1:8040/api/_load_error_log"

(***************************************************************************)
(* What a Load leaves of the LoadSetting                                   *)
(***************************************************************************)
\* The construction of a request for the LoadSetting of the state, followed
\* map by map.
RequestOnMaps == createRequestRefs(ls, "label_1", Maps)

\* C36: a Load and the construction of its requests change nothing of the
\* LoadSetting: no step of a Load changes its options, endpoints,
\* credentials, batch mode or retry policy, whatever the Load ends in; the
\* construction of a request writes into maps of its own only, so that the
\* label is deleted under group commit from the headers of the request and
\* not from the options; and GetOptions returns a map of its own, into which
\* the caller writes without changing the LoadSetting.
C36_LoadLeavesSettingsAlone ==
    /\ [](/\ RequestOnMaps.st.settings = ls.settings
          /\ \A i \in DOMAIN copies.heap :
                RequestOnMaps.st.heap[i] = copies.heap[i]
          /\ MapAt(RequestOnMaps.st, RequestOnMaps.headers)
                = createRequest(ls, LoadURL("fe1:8030", "db", "tbl"),
                                "label_1", Reader("1,Alice,25")).headers
          /\ "group_commit" \in DOMAIN ls.settings =>
                "label" \notin DOMAIN MapAt(RequestOnMaps.st,
                                            RequestOnMaps.headers))
    /\ [][ /\ (\/ Load(Reader("1,Alice,25"))
               \/ \E in \in MutationAnswers : LoadAttempt(in)) => ls' = ls
           /\ (\E i \in DOMAIN copies.refs : \E option \in SingleOptions :
                  WriteReturned(i, option[1], option[2])) => ls' = ls
           /\ CallGetOptions => ls' = ls ]_vars

\* A Load under group commit has returned, its last request sent without a
\* label while the options still hold the caller's label, and the caller has
\* written an option into the map GetOptions gave that the LoadSetting does
\* not have.
C36_Witness ==
    /\ ret.done /\ lastReq.sent
    /\ "Label" \notin DOMAIN lastReq.header
    /\ "group_commit" \in DOMAIN ls.settings
    /\ "label" \in DOMAIN ls.settings /\ ls.settings["label"] = "job_1"
    /\ copies.refs = << 1 >>
    /\ "columns" \in DOMAIN copies.heap[1]
    /\ "columns" \notin DOMAIN ls.settings

=============================================================================
